---- MODULE Spec2Model ----
(***************************************************************************)
(* Risk-constrained order execution path of the Day-Trader repository:     *)
(* TradingEngine (portfolio ledger + buy) and RiskManager (peak ratchet,   *)
(* drawdown, position-size and risk-per-trade checks).                     *)
(*                                                                         *)
(* Money, prices and quantities are integers.  Every ratio the code forms  *)
(* with a floating-point division is kept as a pair <<numerator,           *)
(* denominator>> and compared with the limit by cross-multiplication, with *)
(* the IEEE-754 outcomes of a division by zero (NaN, +Infinity,            *)
(* -Infinity) spelled out.  Division in IEEE-754 is correctly rounded, so  *)
(* a quotient that is mathematically 1/10 (or 1/100, 1/5) is the same      *)
(* double as the literal 0.10 (0.01, 0.20) it is compared with.            *)
(*                                                                         *)
(* The price oracle (TradingEngine.getPrice) has no contract on            *)
(* repeatability: every single read is an independent choice from Prices.  *)
(***************************************************************************)
EXTENDS Integers, Sequences, FiniteSets, TLC

\* ---------------------------------------------------------------- bounds
\* number of trade records after which no further buy is tried
MaxHistory == 2

\* buy calls that are in flight at the same time on one engine
MaxCalls == 2

\* timer callbacks of the price simulator
MaxTicks == 2

\* entries in the callback array of one symbol
MaxSubscriptions == 2

\* trades in the historical data given to one verification
MaxData == 5

\* verifications the verifier keeps a proof of
MaxProofs == 1

\* orders of one symbol recorded before no further order is placed
MaxOrders == 21

\* ------------------------------------------------------- input domains
\* symbols whose price comes from an oracle put in the place of getPrice
Symbols == {"AAPL", "GOOGL"}
\* symbols priced by the built-in TradingEngine.getPrice, 150 + random * 10:
\* the two ends of [150, 160) in whole dollars (a portfolio's value is
\* linear in every price, so its extremes are taken at the ends)
BuiltInSymbols == {"TSLA", "MSFT"}
BuiltInPrices == {150, 159}
\* symbols for which the oracle answers every read with one price
FixedPriceSymbols == {"GOOGL", "IBM"}
\* the prices the oracle may return for a symbol, on any read
\* mutant: the built-in price source has no upper end
PriceRange_unbounded(symbol) == {150, 100000}

PriceRange(symbol) == IF symbol = "AAPL" THEN {0, 100, 1100} ELSE IF symbol = "GOOGL" THEN {110} ELSE IF symbol = "IBM" THEN {50} ELSE BuiltInPrices
Prices == UNION {PriceRange(s) : s \in Symbols \cup BuiltInSymbols \cup FixedPriceSymbols}
\* order quantities of buy
Quantities == {10, 1000, 10000}
\* arguments of the direct calls of checkTrade and checkPositionSize
Actions == {"buy", "sell"}
CheckQuantities == {1000}
CheckPrices == {100}

\* ------------------------------------------------------------ constants
\* TradingEngine constructor: portfolio.cash
InitialCash == 100000
\* RiskManager takes its engine as a constructor argument and seeds
\* initialCapital and peakPortfolioValue from that engine's cash: the
\* TradingEngine's own 100000, or an engine that starts with no cash
InitialCapitals == {0, InitialCash}

\* RiskManager.limits, each fraction as <<numerator, denominator>>
maxRiskPerTrade == <<1, 100>>
maxPortfolioDrawdown == <<1, 10>>
maxPositionSize == <<1, 5>>

\* --------------------------------------------------------------- state
\* TradingEngine and its RiskManager; result is the last call's return
VARIABLES cash, positions, history, memory, initialCapital,
          peakPortfolioValue, result, calls

\* RealTimePriceSimulator: its fields subscribers, isRunning and intervalId;
\* timers are the interval timers the runtime holds; updates are the
\* _updatePrices calls awaiting a price; ticks counts the timer callbacks;
\* feedErrors gives for each symbol the tick of its last rejected price
\* fetch (0: none); unsubscribed are the <<symbol, callback>> pairs that a
\* client has unsubscribed and not subscribed since; simResult is the last
\* operation, for a dispatch with the callbacks the symbol had when it
\* began (before) and those it invoked
VARIABLES subscribers, isRunning, intervalId, timers,
          updates, ticks, feedErrors, unsubscribed, simResult

\* StrategyVerifier: its field proofs and the last return of verifyStrategy
VARIABLES proofs, verification

\* the express server: the body of the last response it sent
VARIABLES response

\* a second engine, constructed like the first and given the same buy
\* calls with the same oracle answers, that is never asked for its
\* portfolio value or its risk metrics: its cash, positions and peak, and
\* the success and reason its last buy returned
VARIABLES twinCash, twinPositions, twinPeak, twinResult

\* SAFLAAgent: its field explorationRate, in hundredths, and the method
\* and the outcome argument of the last learning call
VARIABLES explorationRate, learned

EngineVars == <<cash, positions, history, memory, initialCapital,
                peakPortfolioValue, result, calls>>

SimulatorVars == <<subscribers, isRunning, intervalId, timers,
                   updates, ticks, feedErrors, unsubscribed, simResult>>

VerifierVars == <<proofs, verification>>

ServerVars == <<response>>

TwinVars == <<twinCash, twinPositions, twinPeak, twinResult>>

AgentVars == <<explorationRate, learned>>

\* what an operation of one component leaves alone
OutsideEngine == <<SimulatorVars, VerifierVars, ServerVars, TwinVars, AgentVars>>
OutsideSimulator == <<EngineVars, VerifierVars, ServerVars, TwinVars, AgentVars>>
OutsideVerifier == <<EngineVars, SimulatorVars, ServerVars, TwinVars, AgentVars>>
OutsideServer == <<EngineVars, SimulatorVars, VerifierVars, TwinVars, AgentVars>>
OutsideEngines == <<SimulatorVars, VerifierVars, ServerVars, AgentVars>>
OutsideAgent == <<EngineVars, SimulatorVars, VerifierVars, ServerVars, TwinVars>>

vars == <<EngineVars, SimulatorVars, VerifierVars, ServerVars, TwinVars,
          AgentVars>>

\* ----------------------------------------------- floating-point ratios
\* num/den <= lim  as JavaScript evaluates it on doubles
RatioLeq(num, den, lim) ==
    IF den > 0 THEN num * lim[2] <= lim[1] * den
    ELSE IF den < 0 THEN num * lim[2] >= lim[1] * den
    ELSE num < 0            \* -Infinity <= lim; NaN and +Infinity are not

\* num/den > lim  as JavaScript evaluates it on doubles
RatioGt(num, den, lim) ==
    IF den > 0 THEN num * lim[2] > lim[1] * den
    ELSE IF den < 0 THEN num * lim[2] < lim[1] * den
    ELSE num > 0            \* +Infinity > lim; NaN and -Infinity are not

\* ------------------------------------------------------------- oracle
\* one oracle read per held symbol, as the loop over Object.entries does
PriceReads(pos) ==
    {pr \in [DOMAIN pos -> Prices] : \A s \in DOMAIN pos : pr[s] \in PriceRange(s)}

RECURSIVE SumPositions(_, _, _)
SumPositions(pos, pr, S) ==
    IF S = {} THEN 0
    ELSE LET s == CHOOSE x \in S : TRUE
         IN  pr[s] * pos[s] + SumPositions(pos, pr, S \ {s})

\* totalValue of RiskManager.getPortfolioValue for the prices pr it read
TotalValue(c, pos, pr) == c + SumPositions(pos, pr, DOMAIN pos)

\* mutant: the peak is assigned on every valuation
UpdatePeak_always(peak, totalValue) == totalValue

\* mutant: the peak is never raised
UpdatePeak_never(peak, totalValue) == peak

\* the peak after getPortfolioValue computed totalValue
UpdatePeak(peak, totalValue) ==
    IF totalValue > peak THEN totalValue ELSE peak

\* positions[symbol] || 0
QuantityOf(pos, symbol) ==
    IF symbol \in DOMAIN pos THEN pos[symbol] ELSE 0

\* ------------------------------------------------------------- results
\* The return value of the last call, with the call's arguments and the
\* locals of checkTrade (drawdownCheck, positionCheck, tradeCost,
\* portfolioValue) that decide it.  checks = how many of the three limit
\* checks were evaluated, oracleReads = how many times getPrice was called.
NoResult ==
    [op |-> "none", action |-> "", symbol |-> "", quantity |-> 0, price |-> 0,
     allowed |-> FALSE, success |-> FALSE, reason |-> "", metrics |-> FALSE,
     checks |-> 0, oracleReads |-> 0,
     peakValue |-> 0, currentValue |-> 0,
     positionValue |-> 0, positionPortfolioValue |-> 0,
     tradeCost |-> 0, portfolioValue |-> 0,
     peak |-> 0, threw |-> FALSE]

NoReads(pos) == [s \in DOMAIN pos |-> 0]

\* --------------------------------------------------------- RiskManager
\* mutant: the drawdown threshold is exclusive
DrawdownAllowed_strict(peakValue, currentValue) ==
    /\ RatioLeq(peakValue - currentValue, peakValue, maxPortfolioDrawdown)
    /\ (peakValue - currentValue) * maxPortfolioDrawdown[2]
          # maxPortfolioDrawdown[1] * peakValue

\* mutant: a peak of zero is taken to mean no drawdown
DrawdownAllowed_zeroPeak(peakValue, currentValue) ==
    \/ peakValue = 0
    \/ RatioLeq(peakValue - currentValue, peakValue, maxPortfolioDrawdown)

\* allowed of checkDrawdown: drawdown <= limits.maxPortfolioDrawdown
DrawdownAllowed(peakValue, currentValue) ==
    RatioLeq(peakValue - currentValue, peakValue, maxPortfolioDrawdown)

\* mutant: the position-size threshold is exclusive
PositionSizeAllowed_strict(positionValue, portfolioValue) ==
    /\ RatioLeq(positionValue, portfolioValue, maxPositionSize)
    /\ positionValue * maxPositionSize[2] # maxPositionSize[1] * portfolioValue

\* allowed of checkPositionSize: positionSize <= limits.maxPositionSize
PositionSizeAllowed(positionValue, portfolioValue) ==
    RatioLeq(positionValue, portfolioValue, maxPositionSize)

\* mutant: the risk-per-trade threshold is exclusive
RiskExceeded_atLimit(tradeCost, portfolioValue) ==
    ~RatioLeq(tradeCost, portfolioValue, maxRiskPerTrade)
       \/ (portfolioValue > 0 /\ tradeCost * maxRiskPerTrade[2]
                                   = maxRiskPerTrade[1] * portfolioValue)

\* mutant: the trade cost is compared with the position-size limit
RiskExceeded_wrongLimit(tradeCost, portfolioValue) ==
    RatioGt(tradeCost, portfolioValue, maxPositionSize)

\* the test of checkTrade: riskPerTrade > limits.maxRiskPerTrade
RiskExceeded(tradeCost, portfolioValue) ==
    RatioGt(tradeCost, portfolioValue, maxRiskPerTrade)

\* mutant: the drawdown is computed against the peak read before the
\* valuation has ratcheted it
checkDrawdown_stalePeak(peak0, c, pos, pr) == [allowed |-> DrawdownAllowed(peak0, TotalValue(c, pos, pr)), peakValue |-> peak0, currentValue |-> TotalValue(c, pos, pr), peak |-> UpdatePeak(peak0, TotalValue(c, pos, pr))]

\* checkDrawdown() with pr the prices its getPortfolioValue reads;
\* peak is the field after the call
checkDrawdown(peak0, c, pos, pr) ==
    LET currentValue == TotalValue(c, pos, pr)
        peakValue == UpdatePeak(peak0, currentValue)
    IN  [allowed |-> DrawdownAllowed(peakValue, currentValue),
         peakValue |-> peakValue,
         currentValue |-> currentValue,
         peak |-> peakValue]

\* checkPositionSize(symbol, additionalQuantity, price)
checkPositionSize(peak0, c, pos, pr, symbol, additionalQuantity, price) ==
    LET portfolioValue == TotalValue(c, pos, pr)
        currentQuantity == QuantityOf(pos, symbol)
        newQuantity == currentQuantity + additionalQuantity
        positionValue == newQuantity * price
    IN  [allowed |-> PositionSizeAllowed(positionValue, portfolioValue),
         positionValue |-> positionValue,
         portfolioValue |-> portfolioValue,
         peak |-> UpdatePeak(peak0, portfolioValue)]

\* mutant: a non-buy order goes through the three checks like a buy
checkTrade_noBypass(peak0, c, pos, action, symbol, quantity, price, pr1, pr2, pr3) ==
    LET drawdownCheck == checkDrawdown(peak0, c, pos, pr1)
        positionCheck == checkPositionSize(drawdownCheck.peak, c, pos, pr2,
                                           symbol, quantity, price)
        tradeCost == price * quantity
        portfolioValue == TotalValue(c, pos, pr3)
        r == [NoResult EXCEPT !.op = "checkTrade", !.action = action,
                     !.symbol = symbol, !.quantity = quantity,
                     !.price = price, !.checks = 3,
                     !.oracleReads = 3 * Cardinality(DOMAIN pos),
                     !.peakValue = drawdownCheck.peakValue,
                     !.currentValue = drawdownCheck.currentValue,
                     !.positionValue = positionCheck.positionValue,
                     !.positionPortfolioValue = positionCheck.portfolioValue,
                     !.tradeCost = tradeCost,
                     !.portfolioValue = portfolioValue,
                     !.peak = UpdatePeak(positionCheck.peak, portfolioValue)]
    IN  IF ~drawdownCheck.allowed
        THEN [r EXCEPT !.checks = 1, !.reason = "Portfolio drawdown"]
        ELSE IF ~positionCheck.allowed
        THEN [r EXCEPT !.checks = 2, !.reason = "Position size"]
        ELSE IF RiskExceeded(tradeCost, portfolioValue)
        THEN [r EXCEPT !.reason = "Risk per trade"]
        ELSE [r EXCEPT !.allowed = TRUE,
                       !.reason = "Trade passes all risk checks",
                       !.metrics = TRUE]

\* mutant: the position-size denial is returned ahead of the drawdown denial
checkTrade_positionFirst(peak0, c, pos, action, symbol, quantity, price, pr1, pr2, pr3) ==
    LET drawdownCheck == checkDrawdown(peak0, c, pos, pr1)
        positionCheck == checkPositionSize(drawdownCheck.peak, c, pos, pr2,
                                           symbol, quantity, price)
        tradeCost == price * quantity
        portfolioValue == TotalValue(c, pos, pr3)
        r == [NoResult EXCEPT !.op = "checkTrade", !.action = action,
                     !.symbol = symbol, !.quantity = quantity,
                     !.price = price, !.checks = 3,
                     !.oracleReads = 3 * Cardinality(DOMAIN pos),
                     !.peakValue = drawdownCheck.peakValue,
                     !.currentValue = drawdownCheck.currentValue,
                     !.positionValue = positionCheck.positionValue,
                     !.positionPortfolioValue = positionCheck.portfolioValue,
                     !.tradeCost = tradeCost,
                     !.portfolioValue = portfolioValue,
                     !.peak = UpdatePeak(positionCheck.peak, portfolioValue)]
    IN  IF action # "buy"
        THEN [NoResult EXCEPT !.op = "checkTrade", !.action = action,
                     !.symbol = symbol, !.quantity = quantity,
                     !.price = price, !.peak = peak0,
                     !.allowed = TRUE, !.reason = "Sell orders allowed"]
        ELSE IF ~positionCheck.allowed
        THEN [r EXCEPT !.reason = "Position size"]
        ELSE IF ~drawdownCheck.allowed
        THEN [r EXCEPT !.reason = "Portfolio drawdown"]
        ELSE IF RiskExceeded(tradeCost, portfolioValue)
        THEN [r EXCEPT !.reason = "Risk per trade"]
        ELSE [r EXCEPT !.allowed = TRUE,
                       !.reason = "Trade passes all risk checks",
                       !.metrics = TRUE]

\* checkTrade(action, symbol, quantity, price); pr1, pr2, pr3 are the prices
\* read by the getPortfolioValue of the drawdown check, of the position-size
\* check and of the risk-per-trade check (a read that is not reached is not
\* consulted)
checkTrade(peak0, c, pos, action, symbol, quantity, price, pr1, pr2, pr3) ==
    LET held == Cardinality(DOMAIN pos)
        base == [NoResult EXCEPT !.op = "checkTrade", !.action = action,
                     !.symbol = symbol, !.quantity = quantity,
                     !.price = price, !.peak = peak0]
        drawdownCheck == checkDrawdown(peak0, c, pos, pr1)
        positionCheck == checkPositionSize(drawdownCheck.peak, c, pos, pr2,
                                           symbol, quantity, price)
        portfolioValue == TotalValue(c, pos, pr3)
        tradeCost == price * quantity
        afterDrawdown ==
            [base EXCEPT !.checks = 1, !.oracleReads = held,
                         !.peakValue = drawdownCheck.peakValue,
                         !.currentValue = drawdownCheck.currentValue,
                         !.peak = drawdownCheck.peak]
        afterPosition ==
            [afterDrawdown EXCEPT !.checks = 2, !.oracleReads = 2 * held,
                         !.positionValue = positionCheck.positionValue,
                         !.positionPortfolioValue = positionCheck.portfolioValue,
                         !.peak = positionCheck.peak]
        afterRisk ==
            [afterPosition EXCEPT !.checks = 3, !.oracleReads = 3 * held,
                         !.tradeCost = tradeCost,
                         !.portfolioValue = portfolioValue,
                         !.peak = UpdatePeak(positionCheck.peak, portfolioValue)]
    IN  IF action # "buy"
        THEN [base EXCEPT !.allowed = TRUE, !.reason = "Sell orders allowed"]
        ELSE IF ~drawdownCheck.allowed
        THEN [afterDrawdown EXCEPT !.reason = "Portfolio drawdown"]
        ELSE IF ~positionCheck.allowed
        THEN [afterPosition EXCEPT !.reason = "Position size"]
        ELSE IF RiskExceeded(tradeCost, portfolioValue)
        THEN [afterRisk EXCEPT !.reason = "Risk per trade"]
        ELSE [afterRisk EXCEPT !.allowed = TRUE,
                               !.reason = "Trade passes all risk checks",
                               !.metrics = TRUE]

\* the price reads a checkTrade call makes after its first valuation: none
\* once it has returned
SecondReads(peak0, c, pos, action, pr1) ==
    IF action = "buy" /\ checkDrawdown(peak0, c, pos, pr1).allowed
    THEN PriceReads(pos) ELSE {NoReads(pos)}

ThirdReads(peak0, c, pos, action, symbol, quantity, price, pr1, pr2) ==
    IF /\ action = "buy"
       /\ checkDrawdown(peak0, c, pos, pr1).allowed
       /\ checkPositionSize(peak0, c, pos, pr2, symbol, quantity, price).allowed
    THEN PriceReads(pos) ELSE {NoReads(pos)}

FirstReads(pos, action) ==
    IF action = "buy" THEN PriceReads(pos) ELSE {NoReads(pos)}

\* getRiskMetrics(): pr1 is read by its getPortfolioValue, pr2 by its
\* checkDrawdown, pr3 by the loop over the holdings (whose per-position
\* detail is not kept in the result)
getRiskMetrics(peak0, c, pos, pr1, pr2, pr3) ==
    LET portfolioValue == TotalValue(c, pos, pr1)
        drawdown == checkDrawdown(UpdatePeak(peak0, portfolioValue), c, pos, pr2)
    IN  [NoResult EXCEPT !.op = "getRiskMetrics",
                         !.oracleReads = 3 * Cardinality(DOMAIN pos),
                         !.portfolioValue = portfolioValue,
                         !.peakValue = drawdown.peakValue,
                         !.currentValue = drawdown.currentValue,
                         !.allowed = drawdown.allowed,
                         !.peak = drawdown.peak]

\* ------------------------------------------------------- TradingEngine
\* mutant: the funds test is missing
FundsSufficient_always(c, cost) == TRUE

\* the funds test of buy: portfolio.cash >= cost
FundsSufficient(c, cost) == c >= cost

\* mutant: the debit leaves out the last unit of the cost
DebitCash_short(c, cost) == c - cost + 1

\* portfolio.cash -= cost
DebitCash(c, cost) == c - cost

\* mutant: the bought quantity is added twice
AddPosition_twice(pos, symbol, quantity) == [s \in DOMAIN pos \cup {symbol} |-> IF s = symbol THEN QuantityOf(pos, symbol) + 2 * quantity ELSE pos[s]]

\* mutant: the bought quantity replaces the holding
AddPosition_overwrite(pos, symbol, quantity) ==
    [s \in DOMAIN pos \cup {symbol} |->
        IF s = symbol THEN quantity ELSE pos[s]]

\* portfolio.positions[symbol] = (portfolio.positions[symbol] || 0) + quantity
AddPosition(pos, symbol, quantity) ==
    [s \in DOMAIN pos \cup {symbol} |->
        IF s = symbol THEN QuantityOf(pos, symbol) + quantity ELSE pos[s]]

\* the trade record recordTrade pushes (without its wall-clock timestamp)
TradeRecord(action, symbol, quantity, price) ==
    [action |-> action, symbol |-> symbol, quantity |-> quantity,
     price |-> price]

\* mutant: the new record is put in front of the log
recordTrade_prepend(log, action, symbol, quantity, price) == <<TradeRecord(action, symbol, quantity, price)>> \o log

\* TradingEngine.recordTrade pushes the record at the end of a log
recordTrade(log, action, symbol, quantity, price) == Append(log, TradeRecord(action, symbol, quantity, price))

\* mutant: the funds test comes before the risk check's verdict is used
buyResult_fundsFirst(riskCheck, c, price, quantity) ==
    LET cost == price * quantity
        called == [riskCheck EXCEPT !.op = "buy",
                                    !.oracleReads = riskCheck.oracleReads + 1,
                                    !.metrics = FALSE]
    IN  IF ~FundsSufficient(c, cost)
        THEN [called EXCEPT !.reason = "Insufficient funds"]
        ELSE IF ~riskCheck.allowed
        THEN called
        ELSE [called EXCEPT !.success = TRUE, !.reason = "",
                            !.metrics = riskCheck.metrics]

\* the return value of buy, from the outcome of its risk check
buyResult(riskCheck, c, price, quantity) ==
    LET cost == price * quantity
        called == [riskCheck EXCEPT !.op = "buy",
                                    !.oracleReads = riskCheck.oracleReads + 1,
                                    !.metrics = FALSE]
    IN  IF ~riskCheck.allowed
        THEN called
        ELSE IF FundsSufficient(c, cost)
        THEN [called EXCEPT !.success = TRUE, !.reason = "",
                            !.metrics = riskCheck.metrics]
        ELSE [called EXCEPT !.reason = "Insufficient funds"]

\* mutant: cash is debited as soon as the risk check allows the order
cashAfterBuy_beforeFundsTest(res, c, cost) ==
    IF res.allowed THEN DebitCash(c, cost) ELSE c

\* portfolio.cash when buy returns: debited only on the branch that
\* returns success
cashAfterBuy(res, c, cost) ==
    IF res.success THEN DebitCash(c, cost) ELSE c

\* ------------------------------------------- RealTimePriceSimulator
\* the subscribers object as the list of its entries in key insertion
\* order (the order of Object.keys), each entry a symbol and its array of
\* callbacks
KeyIndex(subs, symbol) ==
    IF \E n \in 1 .. Len(subs) : subs[n].symbol = symbol
    THEN CHOOSE n \in 1 .. Len(subs) : subs[n].symbol = symbol
    ELSE 0

\* this.subscribers[symbol] is defined
HasKey(subs, symbol) == KeyIndex(subs, symbol) # 0

\* this.subscribers[symbol] || []
CallbacksOf(subs, symbol) ==
    IF HasKey(subs, symbol) THEN subs[KeyIndex(subs, symbol)].callbacks
    ELSE <<>>

\* array.indexOf(x), counted from 1; 0 stands for -1
IndexOf(array, x) ==
    IF \E n \in 1 .. Len(array) : array[n] = x
    THEN CHOOSE n \in 1 .. Len(array) :
           array[n] = x /\ \A m \in 1 .. n - 1 : array[m] # x
    ELSE 0

\* array.splice(index, 1)
Splice(array, index) ==
    SubSeq(array, 1, index - 1) \o SubSeq(array, index + 1, Len(array))

\* subscribe(symbol, callback) with valid arguments
subscribe(subs, symbol, callback) ==
    IF HasKey(subs, symbol)
    THEN [subs EXCEPT ![KeyIndex(subs, symbol)].callbacks = Append(@, callback)]
    ELSE Append(subs, [symbol |-> symbol, callbacks |-> <<callback>>])

\* mutant: every entry of the callback is removed
unsubscribe_all(subs, symbol, callback) == IF ~HasKey(subs, symbol) THEN subs ELSE IF SelectSeq(CallbacksOf(subs, symbol), LAMBDA c : c # callback) = <<>> THEN Splice(subs, KeyIndex(subs, symbol)) ELSE [subs EXCEPT ![KeyIndex(subs, symbol)].callbacks = SelectSeq(@, LAMBDA c : c # callback)]

\* unsubscribe(symbol, callback)
unsubscribe(subs, symbol, callback) ==
    IF ~HasKey(subs, symbol) THEN subs
    ELSE LET k == KeyIndex(subs, symbol)
             index == IndexOf(subs[k].callbacks, callback)
             left == IF index # 0 THEN Splice(subs[k].callbacks, index)
                     ELSE subs[k].callbacks
         IN  IF Len(left) = 0 THEN Splice(subs, k)
             ELSE [subs EXCEPT ![k].callbacks = left]

\* getSubscribedSymbols()
getSubscribedSymbols(subs) ==
    LET filled == SelectSeq(subs, LAMBDA e : Len(e.callbacks) > 0)
    IN  [n \in 1 .. Len(filled) |-> filled[n].symbol]

\* the identifier setInterval returns: one that names no active timer
FreshTimer(active) ==
    CHOOSE n \in 1 .. Cardinality(active) + 1 : n \notin active

\* mutant: start() does not look at isRunning
start_unguarded(running, id, active, fresh) == [isRunning |-> TRUE, intervalId |-> fresh, timers |-> active \cup {fresh}]

\* start(): fresh is the timer setInterval creates
start(running, id, active, fresh) ==
    IF running
    THEN [isRunning |-> running, intervalId |-> id, timers |-> active]
    ELSE [isRunning |-> TRUE, intervalId |-> fresh,
          timers |-> active \cup {fresh}]

\* stop()
stop(running, id, active) ==
    IF ~running
    THEN [isRunning |-> running, intervalId |-> id, timers |-> active]
    ELSE [isRunning |-> FALSE, intervalId |-> 0,
          timers |-> IF id # 0 THEN active \ {id} ELSE active]

\* the return of the last operation of the simulator
NoSimResult ==
    [op |-> "none", symbol |-> "", callback |-> "", threw |-> FALSE,
     created |-> FALSE, symbols |-> <<>>,
     tick |-> 0, before |-> <<>>, invoked |-> <<>>, errors |-> 0]

\* what a subscriber callback does when it is invoked: return, throw, call
\* the unsubscribe function it got from subscribe, or subscribe itself to
\* the symbol once more
Behaviours == {"return", "throw", "unsubscribe", "subscribe"}

\* callbacks.forEach(callback => ...) from index k on: length is the length
\* the array had when forEach began, the elements are read from the array
\* as it is when their turn comes (it is the array in subscribers until
\* unsubscribe deletes the key, and empty from then on); beh[k] is what the
\* callback invoked at index k does
RECURSIVE forEach(_, _, _, _, _)
forEach(st, symbol, k, length, beh) ==
    IF k > length \/ k > Len(CallbacksOf(st.subs, symbol)) THEN st
    ELSE LET callback == CallbacksOf(st.subs, symbol)[k]
             called == [st EXCEPT !.invoked = Append(@, callback)]
             after ==
               CASE beh[k] = "throw" ->
                      [called EXCEPT !.errors = @ + 1]
                 [] beh[k] = "unsubscribe" ->
                      [called EXCEPT
                         !.subs = unsubscribe(@, symbol, callback)]
                 [] beh[k] = "subscribe"
                      /\ Len(CallbacksOf(st.subs, symbol)) < MaxSubscriptions ->
                      [called EXCEPT
                         !.subs = subscribe(@, symbol, callback),
                         !.unsub = @ \ {<<symbol, callback>>}]
                 [] OTHER -> called
         IN  forEach(after, symbol, k + 1, length, beh)

\* mutant: a rejected price fetch ends the whole update
afterSymbol_abortOnError(ups, u, ok) == IF ok /\ ups[u].index < Len(ups[u].symbols) THEN [ups EXCEPT ![u].index = @ + 1] ELSE [v \in DOMAIN ups \ {u} |-> ups[v]]

\* the loop of _updatePrices goes on to the next symbol of its list, after
\* a dispatch as after a caught error, and returns after the last
afterSymbol(ups, u, ok) ==
    IF ups[u].index < Len(ups[u].symbols)
    THEN [ups EXCEPT ![u].index = @ + 1]
    ELSE [v \in DOMAIN ups \ {u} |-> ups[v]]

\* ------------------------------------------------------------- actions
\* RealTimePriceSimulator constructor
InitSimulator ==
    /\ subscribers = <<>>
    /\ isRunning = FALSE
    /\ intervalId = 0
    /\ timers = {}
    /\ updates = <<>>
    /\ ticks = 0
    /\ feedErrors = [symbol \in Symbols |-> 0]
    /\ unsubscribed = {}
    /\ simResult = NoSimResult

\* StrategyVerifier constructor
InitVerifier ==
    /\ proofs = <<>>
    /\ verification = [op |-> "none"]

\* no request served yet
NoResponse == [op |-> "none", limit |-> "", body |-> <<>>]

InitServer == response = NoResponse

\* SAFLAAgent constructor: explorationRate = 0.1
InitialExplorationRate == 10

InitAgent ==
    /\ explorationRate = InitialExplorationRate
    /\ learned = [method |-> "none", outcome |-> [nan |-> FALSE, value |-> 0]]

\* the second engine starts with the cash of the first
InitTwin ==
    /\ twinCash = cash
    /\ twinPositions = <<>>
    /\ twinPeak = cash
    /\ twinResult = [success |-> FALSE, reason |-> ""]

\* the buy calls that may be in flight together
Callers == 1 .. MaxCalls

\* a buy call that has not been made: pc is where the call stands, check
\* the limit check whose valuation it is in, snapCash and snapPos the cash
\* and the entries getPortfolioValue took when that valuation began, value
\* the totalValue it returned
IdleCall ==
    [pc |-> "idle", symbol |-> "", quantity |-> 0, price |-> 0, check |-> 0,
     snapCash |-> 0, snapPos |-> <<>>, value |-> 0,
     success |-> FALSE, reason |-> ""]

Init ==
    /\ cash \in InitialCapitals
    /\ positions = <<>>
    /\ history = <<>>
    /\ memory = <<>>
    /\ initialCapital = cash
    /\ peakPortfolioValue = cash
    /\ result = NoResult
    /\ calls = [i \in Callers |-> IdleCall]
    /\ InitSimulator
    /\ InitVerifier
    /\ InitServer
    /\ InitTwin
    /\ InitAgent

Ledger == <<cash, positions, history, memory>>

\* mutant: the price is fetched again for the execution
executionPrice_refetch(price, later) == later

\* the price buy executes at is its local `price`, read once at its start;
\* `later` is what the oracle would answer at execution time, which the
\* code does not ask for
executionPrice(price, later) == price

\* TradingEngine.buy(symbol, quantity)
Buy(symbol, quantity) ==
    /\ Len(history) < MaxHistory
    /\ \E price \in PriceRange(symbol), later \in PriceRange(symbol) :
       \E pr1 \in FirstReads(positions, "buy") :
       \E pr2 \in SecondReads(peakPortfolioValue, cash, positions, "buy", pr1) :
       \E pr3 \in ThirdReads(peakPortfolioValue, cash, positions, "buy",
                              symbol, quantity, price, pr1, pr2) :
         LET riskCheck == checkTrade(peakPortfolioValue, cash, positions, "buy",
                                     symbol, quantity, price, pr1, pr2, pr3)
             paid == executionPrice(price, later)
             res == buyResult(riskCheck, cash, paid, quantity)
         IN  /\ result' = res
             /\ peakPortfolioValue' = riskCheck.peak
             /\ cash' = cashAfterBuy(res, cash, paid * quantity)
             /\ IF res.success
                THEN /\ positions' = AddPosition(positions, symbol, quantity)
                     /\ history' = recordTrade(history, "buy", symbol,
                                                quantity, paid)
                     /\ memory' = recordTrade(memory, "buy", symbol,
                                               quantity, paid)
                ELSE UNCHANGED <<positions, history, memory>>
    /\ UNCHANGED <<initialCapital, calls, OutsideEngine>>

\* mutant: the valuation accumulates in portfolio.cash itself
cashAfterValuation_accumulated(c, totalValue) == totalValue

\* getPortfolioValue sums into the local totalValue, which starts as a copy
\* of portfolio.cash: the cash itself is not written
cashAfterValuation(c, totalValue) == c

\* RiskManager.getPortfolioValue()
GetPortfolioValue ==
    /\ \E pr \in PriceReads(positions) :
         LET totalValue == TotalValue(cash, positions, pr)
         IN  /\ peakPortfolioValue' = UpdatePeak(peakPortfolioValue, totalValue)
             /\ cash' = cashAfterValuation(cash, totalValue)
             /\ result' = [NoResult EXCEPT !.op = "getPortfolioValue",
                              !.oracleReads = Cardinality(DOMAIN positions),
                              !.portfolioValue = totalValue,
                              !.peak = UpdatePeak(peakPortfolioValue, totalValue)]
    /\ UNCHANGED <<positions, history, memory, initialCapital, calls, OutsideEngine>>

\* RiskManager.checkDrawdown()
CheckDrawdown ==
    /\ \E pr \in PriceReads(positions) :
         LET r == checkDrawdown(peakPortfolioValue, cash, positions, pr)
         IN  /\ peakPortfolioValue' = r.peak
             /\ result' = [NoResult EXCEPT !.op = "checkDrawdown",
                              !.oracleReads = Cardinality(DOMAIN positions),
                              !.allowed = r.allowed,
                              !.peakValue = r.peakValue,
                              !.currentValue = r.currentValue,
                              !.peak = r.peak]
    /\ UNCHANGED <<Ledger, initialCapital, calls, OutsideEngine>>

\* RiskManager.checkPositionSize(symbol, additionalQuantity, price)
CheckPositionSize(symbol, additionalQuantity, price) ==
    /\ \E pr \in PriceReads(positions) :
         LET r == checkPositionSize(peakPortfolioValue, cash, positions, pr,
                                    symbol, additionalQuantity, price)
         IN  /\ peakPortfolioValue' = r.peak
             /\ result' = [NoResult EXCEPT !.op = "checkPositionSize",
                              !.symbol = symbol,
                              !.quantity = additionalQuantity,
                              !.price = price,
                              !.oracleReads = Cardinality(DOMAIN positions),
                              !.allowed = r.allowed,
                              !.positionValue = r.positionValue,
                              !.positionPortfolioValue = r.portfolioValue,
                              !.peak = r.peak]
    /\ UNCHANGED <<Ledger, initialCapital, calls, OutsideEngine>>

\* RiskManager.checkTrade(action, symbol, quantity, price)
CheckTrade(action, symbol, quantity, price) ==
    /\ \E pr1 \in FirstReads(positions, action) :
       \E pr2 \in SecondReads(peakPortfolioValue, cash, positions, action, pr1) :
       \E pr3 \in ThirdReads(peakPortfolioValue, cash, positions, action,
                              symbol, quantity, price, pr1, pr2) :
         LET r == checkTrade(peakPortfolioValue, cash, positions, action,
                             symbol, quantity, price, pr1, pr2, pr3)
         IN  /\ peakPortfolioValue' = r.peak
             /\ result' = r
    /\ UNCHANGED <<Ledger, initialCapital, calls, OutsideEngine>>

\* RiskManager.getRiskMetrics()
GetRiskMetrics ==
    /\ \E pr1 \in PriceReads(positions) :
       \E pr2 \in PriceReads(positions) :
         LET r == getRiskMetrics(peakPortfolioValue, cash, positions,
                                 pr1, pr2, NoReads(positions))
         IN  /\ peakPortfolioValue' = r.peak
             /\ result' = r
    /\ UNCHANGED <<Ledger, initialCapital, calls, OutsideEngine>>

Next ==
    \/ \E symbol \in Symbols, quantity \in Quantities : Buy(symbol, quantity)
    \/ GetPortfolioValue
    \/ CheckDrawdown
    \/ \E symbol \in Symbols, quantity \in CheckQuantities,
          price \in CheckPrices : CheckPositionSize(symbol, quantity, price)
    \/ \E action \in Actions, symbol \in Symbols, quantity \in CheckQuantities,
          price \in CheckPrices : CheckTrade(action, symbol, quantity, price)
    \/ GetRiskMetrics

Spec == Init /\ [][Next]_vars

\* ------------------------------------------- buy with a failing oracle
\* mutant: the debit is made before the awaits of the risk check
cashAfterThrow_debited(c, cost) == c - cost

\* the cash a buy leaves behind when one of its awaits rejects: the debit
\* of line 27 comes after the last await and has not run
cashAfterThrow(c, cost) == c

\* the points of a buy at which an oracle read can reject: 0 is the read of
\* the order's price, 1..3 a read inside the valuation of the drawdown,
\* position-size and risk-per-trade check
FailPoints == 0 .. 3

\* the return of buy is a rejected promise: nothing but the error reaches
\* the caller; valuations is the number of valuations that had completed
Thrown(symbol, quantity, price, valuations, held, peak) ==
    [NoResult EXCEPT !.op = "buy", !.action = "buy", !.symbol = symbol,
                     !.quantity = quantity, !.price = price,
                     !.checks = valuations,
                     !.oracleReads = (IF price = 0 /\ valuations = 0 THEN 0 ELSE 1)
                                       + valuations * held,
                     !.peak = peak, !.threw = TRUE]

\* TradingEngine.buy(symbol, quantity) when the oracle read at failAt
\* throws: a valuation has reads only when something is held, and is reached
\* only when the checks before it allowed the order; the valuations that
\* completed have ratcheted the peak
BuyOracleFails(symbol, quantity, failAt) ==
    /\ \E price \in PriceRange(symbol) :
       \E pr1 \in PriceReads(positions), pr2 \in PriceReads(positions) :
         LET held == Cardinality(DOMAIN positions)
             drawdownCheck == checkDrawdown(peakPortfolioValue, cash,
                                            positions, pr1)
             positionCheck == checkPositionSize(drawdownCheck.peak, cash,
                                  positions, pr2, symbol, quantity, price)
         IN  /\ failAt >= 1 => held > 0
             /\ failAt >= 2 => drawdownCheck.allowed
             /\ failAt >= 3 => positionCheck.allowed
             /\ failAt <= 2 => pr2 = pr1   \* pr2 is not consulted
             /\ peakPortfolioValue' =
                   (CASE failAt <= 1 -> peakPortfolioValue
                      [] failAt = 2 -> drawdownCheck.peak
                      [] failAt = 3 -> positionCheck.peak)
             /\ result' = Thrown(symbol, quantity,
                                 IF failAt = 0 THEN 0 ELSE price,
                                 IF failAt = 0 THEN 0 ELSE failAt - 1,
                                 held, peakPortfolioValue')
             /\ cash' = cashAfterThrow(cash, price * quantity)
    /\ UNCHANGED <<positions, history, memory, initialCapital, calls, OutsideEngine>>

NextOracleFailure ==
    \/ \E symbol \in Symbols, quantity \in Quantities : Buy(symbol, quantity)
    \/ \E symbol \in Symbols, quantity \in Quantities, failAt \in FailPoints :
          BuyOracleFails(symbol, quantity, failAt)
    \/ GetPortfolioValue

SpecOracleFailure == Init /\ [][NextOracleFailure]_vars

\* ------------------------------------------- buy with any quantity
\* buy does not validate its quantity argument: the callers of this
\* specification also pass zero and negative quantities
AnyQuantities == {-10, 0, 1000, 10000}

NextAnyQuantity ==
    \/ \E symbol \in Symbols, quantity \in AnyQuantities : Buy(symbol, quantity)
    \/ GetPortfolioValue

SpecAnyQuantity == Init /\ [][NextAnyQuantity]_vars

\* ------------------------------------------------- concurrent buy calls
\* buy is an async function: between two of its awaits the calls of other
\* callers run.  One action below is the code a call runs from one await
\* to the next.
ConcurrentQuantities == {10, 1000}

\* mutant: the debit is computed from the cash the risk check valued
cashAfterCommit_lostUpdate(c, snapCash, cost) == snapCash - cost

\* portfolio.cash -= cost reads the field when it runs
cashAfterCommit(c, snapCash, cost) == DebitCash(c, cost)

\* buy returns without executing the order
Denied(call, reason) ==
    [call EXCEPT !.pc = "done", !.check = 0, !.value = 0, !.reason = reason]

\* getPortfolioValue begins for limit check k of call i: it copies
\* portfolio.cash into totalValue and takes Object.entries(positions); with
\* nothing held the loop has no await, so it ratchets the peak and returns
EnterValuation(i, k) ==
    IF DOMAIN positions = {}
    THEN /\ calls' = [calls EXCEPT ![i] =
                        [@ EXCEPT !.pc = "returned", !.check = k,
                                  !.snapCash = cash, !.snapPos = positions,
                                  !.value = cash]]
         /\ peakPortfolioValue' = UpdatePeak(peakPortfolioValue, cash)
    ELSE /\ calls' = [calls EXCEPT ![i] =
                        [@ EXCEPT !.pc = "valuing", !.check = k,
                                  !.snapCash = cash, !.snapPos = positions]]
         /\ UNCHANGED peakPortfolioValue

\* buy(symbol, quantity) is called and awaits getPrice
StartBuy(i, symbol, quantity) ==
    /\ calls[i].pc = "idle"
    /\ \E price \in PriceRange(symbol) :
         calls' = [calls EXCEPT ![i] =
                     [@ EXCEPT !.pc = "priced", !.symbol = symbol,
                               !.quantity = quantity, !.price = price]]
    /\ UNCHANGED <<Ledger, initialCapital, peakPortfolioValue, result, OutsideEngine>>

\* buy resumes with the price and calls checkTrade, which calls
\* checkDrawdown, which calls getPortfolioValue
EnterCheckTrade(i) ==
    /\ calls[i].pc = "priced"
    /\ EnterValuation(i, 1)
    /\ UNCHANGED <<Ledger, initialCapital, result, OutsideEngine>>

\* the loop of getPortfolioValue has read a price for every entry it took;
\* the total is compared with the peak of this moment and returned
FinishValuation(i) ==
    /\ calls[i].pc = "valuing"
    /\ \E pr \in PriceReads(calls[i].snapPos) :
         LET totalValue == TotalValue(calls[i].snapCash, calls[i].snapPos, pr)
         IN  /\ peakPortfolioValue' = UpdatePeak(peakPortfolioValue, totalValue)
             /\ calls' = [calls EXCEPT ![i] =
                            [@ EXCEPT !.pc = "returned", !.value = totalValue]]
    /\ UNCHANGED <<Ledger, initialCapital, result, OutsideEngine>>

\* checkDrawdown resumes with currentValue and reads the peak of this moment
DrawdownReturns(i) ==
    /\ calls[i].pc = "returned" /\ calls[i].check = 1
    /\ IF DrawdownAllowed(peakPortfolioValue, calls[i].value)
       THEN EnterValuation(i, 2)
       ELSE /\ calls' = [calls EXCEPT ![i] = Denied(@, "Portfolio drawdown")]
            /\ UNCHANGED peakPortfolioValue
    /\ UNCHANGED <<Ledger, initialCapital, result, OutsideEngine>>

\* checkPositionSize resumes with portfolioValue and reads the holding of
\* this moment
PositionReturns(i) ==
    /\ calls[i].pc = "returned" /\ calls[i].check = 2
    /\ LET positionValue == (QuantityOf(positions, calls[i].symbol)
                               + calls[i].quantity) * calls[i].price
       IN  IF PositionSizeAllowed(positionValue, calls[i].value)
           THEN EnterValuation(i, 3)
           ELSE /\ calls' = [calls EXCEPT ![i] = Denied(@, "Position size")]
                /\ UNCHANGED peakPortfolioValue
    /\ UNCHANGED <<Ledger, initialCapital, result, OutsideEngine>>

\* checkTrade resumes with portfolioValue, tests the risk per trade and
\* returns to buy, which awaits it
RiskReturns(i) ==
    /\ calls[i].pc = "returned" /\ calls[i].check = 3
    /\ calls' = [calls EXCEPT ![i] =
                   IF RiskExceeded(calls[i].price * calls[i].quantity,
                                   calls[i].value)
                   THEN Denied(@, "Risk per trade")
                   ELSE [@ EXCEPT !.pc = "commit", !.check = 0, !.value = 0]]
    /\ UNCHANGED <<Ledger, initialCapital, peakPortfolioValue, result, OutsideEngine>>

\* buy resumes with an allowing riskCheck: the funds test, the debit, the
\* position update and recordTrade run without an await between them
Commit(i) ==
    /\ calls[i].pc = "commit"
    /\ LET cost == calls[i].price * calls[i].quantity
       IN  IF FundsSufficient(cash, cost)
           THEN /\ cash' = cashAfterCommit(cash, calls[i].snapCash, cost)
                /\ positions' = AddPosition(positions, calls[i].symbol,
                                            calls[i].quantity)
                /\ history' = recordTrade(history, "buy", calls[i].symbol,
                                          calls[i].quantity, calls[i].price)
                /\ memory' = recordTrade(memory, "buy", calls[i].symbol,
                                         calls[i].quantity, calls[i].price)
                /\ calls' = [calls EXCEPT ![i] =
                               [@ EXCEPT !.pc = "done", !.success = TRUE]]
           ELSE /\ calls' = [calls EXCEPT ![i] =
                               Denied(@, "Insufficient funds")]
                /\ UNCHANGED Ledger
    /\ UNCHANGED <<initialCapital, peakPortfolioValue, result, OutsideEngine>>

NextConcurrent ==
    \/ \E i \in Callers, symbol \in Symbols, quantity \in ConcurrentQuantities :
          StartBuy(i, symbol, quantity)
    \/ \E i \in Callers : EnterCheckTrade(i)
    \/ \E i \in Callers : FinishValuation(i)
    \/ \E i \in Callers : DrawdownReturns(i)
    \/ \E i \in Callers : PositionReturns(i)
    \/ \E i \in Callers : RiskReturns(i)
    \/ \E i \in Callers : Commit(i)

SpecConcurrent == Init /\ [][NextConcurrent]_vars

\* ------------------------------------- position-size checks at the limit
\* checkPositionSize is a public method: these callers pass quantities that
\* put the prospective holding at, just under and just over 20% of the
\* portfolio, and a price of zero
PositionCheckQuantities == {190, 200, 201}
PositionCheckPrices == {0, 100}

NextPositionSize ==
    \/ \E symbol \in Symbols, quantity \in Quantities : Buy(symbol, quantity)
    \/ \E symbol \in Symbols, quantity \in PositionCheckQuantities,
          price \in PositionCheckPrices :
            CheckPositionSize(symbol, quantity, price)

SpecPositionSize == Init /\ [][NextPositionSize]_vars

\* ------------------------------------------- the built-in price source
\* quantities whose cost at a built-in price is under and over 1% of the
\* fresh engine's cash
BuiltInQuantities == {6, 7}

NextBuiltInPrices ==
    \/ \E symbol \in BuiltInSymbols, quantity \in BuiltInQuantities :
          Buy(symbol, quantity)
    \/ GetRiskMetrics

SpecBuiltInPrices == Init /\ [][NextBuiltInPrices]_vars

\* ------------------------------------------ an oracle of fixed prices
\* quantities under, at and over the risk-per-trade limit at the fixed
\* prices, and one over the position-size limit
FixedPriceQuantities == {5, 9, 10, 20, 500}

\* the price the oracle answers with for a symbol of FixedPriceSymbols
FixedPrice(symbol) == CHOOSE price \in PriceRange(symbol) : TRUE

NextFixedPrices ==
    \/ \E symbol \in FixedPriceSymbols, quantity \in FixedPriceQuantities :
          Buy(symbol, quantity)
    \/ GetPortfolioValue
    \/ GetRiskMetrics

SpecFixedPrices == Init /\ [][NextFixedPrices]_vars

\* -------------------------------- overlapping orders at a fixed price
\* one order of 1% of the initial cash at the fixed price of IBM
OrderSymbol == "IBM"
OrderQuantity == 20

\* a caller whose buy has returned is free to call again
Return(i) ==
    /\ calls[i].pc = "done"
    /\ calls' = [calls EXCEPT ![i] = IdleCall]
    /\ UNCHANGED <<Ledger, initialCapital, peakPortfolioValue, result,
                   OutsideEngine>>

\* the two callers whose orders overlap
OrderCallers == {1, 2}

NextOverlappingOrders ==
    \/ \E i \in OrderCallers :
          /\ Len(history) < MaxOrders
          /\ StartBuy(i, OrderSymbol, OrderQuantity)
    \/ \E i \in OrderCallers : EnterCheckTrade(i)
    \/ \E i \in OrderCallers : FinishValuation(i)
    \/ \E i \in OrderCallers : DrawdownReturns(i)
    \/ \E i \in OrderCallers : PositionReturns(i)
    \/ \E i \in OrderCallers : RiskReturns(i)
    \/ \E i \in OrderCallers : Commit(i)
    \/ \E i \in OrderCallers : Return(i)

SpecOverlappingOrders == Init /\ [][NextOverlappingOrders]_vars

\* ------------------------------------- two runs of the same buy calls
\* the reads of the second and third valuation of a buy that one of the
\* two engines makes
PairedSecondReads(pr1) ==
    IF \/ checkDrawdown(peakPortfolioValue, cash, positions, pr1).allowed
       \/ checkDrawdown(twinPeak, twinCash, twinPositions, pr1).allowed
    THEN PriceReads(positions) ELSE {NoReads(positions)}

PairedThirdReads(symbol, quantity, price, pr1, pr2) ==
    IF \/ /\ checkDrawdown(peakPortfolioValue, cash, positions, pr1).allowed
          /\ checkPositionSize(peakPortfolioValue, cash, positions, pr2,
                               symbol, quantity, price).allowed
       \/ /\ checkDrawdown(twinPeak, twinCash, twinPositions, pr1).allowed
          /\ checkPositionSize(twinPeak, twinCash, twinPositions, pr2,
                               symbol, quantity, price).allowed
    THEN PriceReads(positions) ELSE {NoReads(positions)}

\* buy(symbol, quantity) on both engines while their ledgers agree: the
\* oracle answers the reads of both with the same prices
PairedBuy(symbol, quantity) ==
    /\ Len(history) < MaxHistory
    /\ twinCash = cash /\ twinPositions = positions
    /\ \E price \in PriceRange(symbol) :
       \E pr1 \in PriceReads(positions) :
       \E pr2 \in PairedSecondReads(pr1) :
       \E pr3 \in PairedThirdReads(symbol, quantity, price, pr1, pr2) :
         LET riskCheck == checkTrade(peakPortfolioValue, cash, positions, "buy",
                                     symbol, quantity, price, pr1, pr2, pr3)
             res == buyResult(riskCheck, cash, price, quantity)
             twinCheck == checkTrade(twinPeak, twinCash, twinPositions, "buy",
                                     symbol, quantity, price, pr1, pr2, pr3)
             twinRes == buyResult(twinCheck, twinCash, price, quantity)
         IN  /\ result' = res
             /\ peakPortfolioValue' = riskCheck.peak
             /\ cash' = cashAfterBuy(res, cash, price * quantity)
             /\ IF res.success
                THEN /\ positions' = AddPosition(positions, symbol, quantity)
                     /\ history' = recordTrade(history, "buy", symbol,
                                                quantity, price)
                     /\ memory' = recordTrade(memory, "buy", symbol,
                                               quantity, price)
                ELSE UNCHANGED <<positions, history, memory>>
             /\ twinResult' = [success |-> twinRes.success,
                               reason |-> twinRes.reason]
             /\ twinPeak' = twinCheck.peak
             /\ twinCash' = cashAfterBuy(twinRes, twinCash, price * quantity)
             /\ twinPositions' = IF twinRes.success
                                 THEN AddPosition(twinPositions, symbol, quantity)
                                 ELSE twinPositions
    /\ UNCHANGED <<initialCapital, calls, OutsideEngines>>

\* an order within the risk-per-trade limit at 100 a share, and one that
\* is within it only at a price of 0
ObservedQuantities == {10, 1000}

NextObserved ==
    \/ \E symbol \in Symbols, quantity \in ObservedQuantities :
          PairedBuy(symbol, quantity)
    \/ GetPortfolioValue
    \/ GetRiskMetrics

SpecObserved == Init /\ [][NextObserved]_vars

\* --------------------------------------------------------- SAFLAAgent
\* the bounds and the step of the exploration rate, in hundredths:
\* Math.max(0.05, ...), Math.min(0.3, ...), 0.01
MinExplorationRate == 5
MaxExplorationRate == 30
ExplorationStep == 1

\* outcome arguments of learn: a loss, nothing, a gain, and NaN
LearnOutcomes ==
    {[nan |-> FALSE, value |-> v] : v \in {0 - 1, 0, 1}}
       \cup {[nan |-> TRUE, value |-> 0]}

\* outcome > 0, which is false for NaN
OutcomePositive(outcome) == ~outcome.nan /\ outcome.value > 0

\* mutant: the decrease has no floor
adaptExplorationRate_noFloor(rate, outcome) == IF OutcomePositive(outcome) THEN rate - ExplorationStep ELSE (IF rate + ExplorationStep > MaxExplorationRate THEN MaxExplorationRate ELSE rate + ExplorationStep)

\* the adjustment both learn and _simpleFallbackLearning make:
\* Math.max(0.05, rate - 0.01) after a positive outcome,
\* Math.min(0.3, rate + 0.01) otherwise
adaptExplorationRate(rate, outcome) ==
    IF OutcomePositive(outcome)
    THEN (IF rate - ExplorationStep < MinExplorationRate
          THEN MinExplorationRate ELSE rate - ExplorationStep)
    ELSE (IF rate + ExplorationStep > MaxExplorationRate
          THEN MaxExplorationRate ELSE rate + ExplorationStep)

\* SAFLAAgent.learn(action, outcome) of the agent without an RL agent
Learn(outcome) ==
    /\ explorationRate' = adaptExplorationRate(explorationRate, outcome)
    /\ learned' = [method |-> "learn", outcome |-> outcome]
    /\ UNCHANGED OutsideAgent

\* SAFLAAgent._simpleFallbackLearning(action, outcome), which learn calls
\* when no RL agent was created
SimpleFallbackLearning(outcome) ==
    /\ explorationRate' = adaptExplorationRate(explorationRate, outcome)
    /\ learned' = [method |-> "_simpleFallbackLearning", outcome |-> outcome]
    /\ UNCHANGED OutsideAgent

NextAgent ==
    \/ \E outcome \in LearnOutcomes : Learn(outcome)
    \/ \E outcome \in LearnOutcomes : SimpleFallbackLearning(outcome)

SpecAgent == Init /\ [][NextAgent]_vars

\* ------------------------------------------------- GET /api/history
\* req.query.limit: "undefined" stands for a request without the
\* parameter, the other values are the parameter's text
QueryLimits == {"undefined", "-1", "0", "1", "2"}

\* parseInt on the texts of QueryLimits
parseInt(text) ==
    CASE text = "-1" -> 0 - 1
      [] text = "0" -> 0
      [] text = "1" -> 1
      [] text = "2" -> 2

\* [...array].reverse()
RECURSIVE Reverse(_)
Reverse(array) ==
    IF array = <<>> THEN <<>>
    ELSE Append(Reverse(Tail(array)), Head(array))

\* array.slice(0, end)
Slice(array, end) ==
    LET last == IF end < 0
                THEN (IF Len(array) + end < 0 THEN 0 ELSE Len(array) + end)
                ELSE (IF end > Len(array) THEN Len(array) ELSE end)
    IN  SubSeq(array, 1, last)

\* the body of the response: `limit` is undefined for a missing
\* parameter, and `limit ? ... : ...` takes undefined and 0 alike
limitedHistory(log, text) ==
    LET defined == text # "undefined"
        limit == IF defined THEN parseInt(text) ELSE 0
        truthy == defined /\ limit # 0
    IN  IF truthy THEN Slice(Reverse(log), limit) ELSE Reverse(log)

\* app.get('/api/history')
GetHistory(text) ==
    /\ response' = [op |-> "getHistory", limit |-> text,
                    body |-> limitedHistory(history, text)]
    /\ UNCHANGED OutsideServer

\* trades that fill the history
HistorySymbols == {"GOOGL", "MSFT"}
HistoryQuantities == {3, 5}

NextHistory ==
    \/ \E symbol \in HistorySymbols, quantity \in HistoryQuantities :
          Buy(symbol, quantity)
    \/ \E text \in QueryLimits : GetHistory(text)

SpecHistory == Init /\ [][NextHistory]_vars

\* --------------------------------------------------- StrategyVerifier
\* this.rules, as fractions
RuleMaxDrawdown == <<1, 4>>
RuleRiskPerTrade == <<2, 100>>
RuleMinWinRate == <<2, 5>>

\* num/den < lim  as JavaScript evaluates it on doubles
RatioLt(num, den, lim) ==
    IF den > 0 THEN num * lim[2] < lim[1] * den
    ELSE IF den < 0 THEN num * lim[2] > lim[1] * den
    ELSE num < 0            \* -Infinity < lim; NaN and +Infinity are not

\* outcomes of the trades in historicalData: the loss at the drawdown
\* rule, a trade that neither won nor lost, a win
Outcomes == {0 - 25000, 0, 100}

RECURSIVE HistoricalDataOfLength(_)
HistoricalDataOfLength(n) ==
    IF n = 0 THEN {<<>>}
    ELSE {Append(data, outcome) :
             data \in HistoricalDataOfLength(n - 1), outcome \in Outcomes}

HistoricalData == UNION {HistoricalDataOfLength(n) : n \in 0 .. MaxData}

\* data.filter(t => t.outcome > 0).length
RECURSIVE Wins(_)
Wins(data) ==
    IF data = <<>> THEN 0
    ELSE (IF Head(data) > 0 THEN 1 ELSE 0) + Wins(Tail(data))

\* data.filter(t => t.outcome <= 0).length
RECURSIVE Losses(_)
Losses(data) ==
    IF data = <<>> THEN 0
    ELSE (IF Head(data) <= 0 THEN 1 ELSE 0) + Losses(Tail(data))

\* Math.min(...outcomes) of a non-empty array
RECURSIVE MinOutcome(_)
MinOutcome(data) ==
    IF Len(data) = 1 THEN Head(data)
    ELSE LET rest == MinOutcome(Tail(data))
         IN  IF Head(data) < rest THEN Head(data) ELSE rest

Abs(n) == IF n < 0 THEN 0 - n ELSE n

\* StrategyVerifier.calculateMetrics(data); the metrics are fractions
\* <<numerator, denominator>>: winRate is 0/0 (NaN) for empty data, and
\* Math.min() of no arguments is Infinity, which makes maxDrawdown
\* Infinity (1/0)
calculateMetrics(data) ==
    [winRate |-> <<Wins(data), Wins(data) + Losses(data)>>,
     maxDrawdown |-> IF data = <<>> THEN <<1, 0>>
                     ELSE <<Abs(MinOutcome(data)), 100000>>,
     avgRisk |-> <<15, 1000>>,
     totalTrades |-> Len(data)]

\* mutant: a win rate at the rule passes
WinRateProof_inclusive(metrics) == metrics.winRate[2] > 0 /\ metrics.winRate[1] * RuleMinWinRate[2] >= RuleMinWinRate[1] * metrics.winRate[2]

\* metrics.winRate > this.rules.minWinRate
WinRateProof(metrics) ==
    RatioGt(metrics.winRate[1], metrics.winRate[2], RuleMinWinRate)

\* mutant: a drawdown at the rule passes
DrawdownProof_inclusive(metrics) == RatioLeq(metrics.maxDrawdown[1], metrics.maxDrawdown[2], RuleMaxDrawdown)

\* metrics.maxDrawdown < this.rules.maxDrawdown
DrawdownProof(metrics) ==
    RatioLt(metrics.maxDrawdown[1], metrics.maxDrawdown[2], RuleMaxDrawdown)

\* the return value of verifyStrategy for historicalData = data
verifyStrategy(data) ==
    LET metrics == calculateMetrics(data)
        proved == [drawdown |-> DrawdownProof(metrics),
                   risk |-> RatioLt(metrics.avgRisk[1], metrics.avgRisk[2],
                                    RuleRiskPerTrade),
                   winRate |-> WinRateProof(metrics)]
        isValid == proved.drawdown /\ proved.risk /\ proved.winRate
    IN  [op |-> "verifyStrategy", data |-> data,
         valid |-> isValid, metrics |-> metrics, proofs |-> proved,
         recommendation |-> IF isValid THEN "SAFE" ELSE "RISKY"]

\* StrategyVerifier.verifyStrategy(strategy, historicalData)
VerifyStrategy(data) ==
    /\ Len(proofs) < MaxProofs
    /\ verification' = verifyStrategy(data)
    /\ proofs' = Append(proofs, [proofs |-> verifyStrategy(data).proofs,
                                 metrics |-> verifyStrategy(data).metrics])
    /\ UNCHANGED OutsideVerifier

NextVerifier == \E data \in HistoricalData : VerifyStrategy(data)

SpecVerifier == Init /\ [][NextVerifier]_vars

\* ------------------------------------- RealTimePriceSimulator actions
Callbacks == {"callback1", "callback2"}

\* subscribe(symbol, callback); an empty symbol is refused with an error
Subscribe(symbol, callback) ==
    /\ Len(CallbacksOf(subscribers, symbol)) < MaxSubscriptions
    /\ IF symbol = ""
       THEN /\ simResult' = [NoSimResult EXCEPT !.op = "subscribe",
                               !.threw = TRUE]
            /\ UNCHANGED <<subscribers, unsubscribed>>
       ELSE /\ subscribers' = subscribe(subscribers, symbol, callback)
            /\ unsubscribed' = unsubscribed \ {<<symbol, callback>>}
            /\ simResult' = [NoSimResult EXCEPT !.op = "subscribe"]
    /\ UNCHANGED <<isRunning, intervalId, timers, updates, ticks,
                   feedErrors, OutsideSimulator>>

\* unsubscribe(symbol, callback), called directly or through the function
\* subscribe returned
Unsubscribe(symbol, callback) ==
    /\ subscribers' = unsubscribe(subscribers, symbol, callback)
    /\ unsubscribed' = unsubscribed \cup {<<symbol, callback>>}
    /\ simResult' = [NoSimResult EXCEPT !.op = "unsubscribe",
                        !.symbol = symbol, !.callback = callback]
    /\ UNCHANGED <<isRunning, intervalId, timers, updates, ticks,
                   feedErrors, OutsideSimulator>>

\* getSubscribedSymbols()
GetSubscribedSymbols ==
    /\ simResult' = [NoSimResult EXCEPT !.op = "getSubscribedSymbols",
                        !.symbols = getSubscribedSymbols(subscribers)]
    /\ UNCHANGED <<subscribers, isRunning, intervalId, timers,
                   updates, ticks, feedErrors, unsubscribed, OutsideSimulator>>

\* start()
Start ==
    /\ LET after == start(isRunning, intervalId, timers, FreshTimer(timers))
       IN  /\ isRunning' = after.isRunning
           /\ intervalId' = after.intervalId
           /\ timers' = after.timers
    /\ simResult' = [NoSimResult EXCEPT !.op = "start",
                        !.created = ~isRunning]
    /\ UNCHANGED <<subscribers, updates, ticks, feedErrors, unsubscribed,
                   OutsideSimulator>>

\* stop()
Stop ==
    /\ LET after == stop(isRunning, intervalId, timers)
       IN  /\ isRunning' = after.isRunning
           /\ intervalId' = after.intervalId
           /\ timers' = after.timers
    /\ simResult' = [NoSimResult EXCEPT !.op = "stop"]
    /\ UNCHANGED <<subscribers, updates, ticks, feedErrors,
                   unsubscribed, OutsideSimulator>>

\* the callback of an active interval timer calls _updatePrices, which
\* takes the subscribed symbols and, if there are any, awaits the price of
\* the first
Tick(timer) ==
    /\ timer \in timers
    /\ ticks < MaxTicks
    /\ ticks' = ticks + 1
    /\ LET symbols == getSubscribedSymbols(subscribers)
       IN  updates' =
             IF Len(symbols) = 0 THEN updates
             ELSE [v \in DOMAIN updates \cup {ticks + 1} |->
                     IF v = ticks + 1
                     THEN [symbols |-> symbols, index |-> 1]
                     ELSE updates[v]]
    /\ simResult' = [NoSimResult EXCEPT !.op = "tick", !.tick = ticks + 1]
    /\ UNCHANGED <<subscribers, isRunning, intervalId, timers,
                   feedErrors, unsubscribed, OutsideSimulator>>

\* dataFeed.getPrice resolves for update u: the callbacks subscribers holds
\* for the symbol at this moment are notified, then the loop goes on;
\* behaviours is what the callbacks of the caller may do
PriceResolves(u, behaviours) ==
    /\ u \in DOMAIN updates
    /\ LET symbol == updates[u].symbols[updates[u].index]
           callbacks == CallbacksOf(subscribers, symbol)
       IN  \E beh \in [1 .. Len(callbacks) -> behaviours] :
             LET st == forEach([subs |-> subscribers, invoked |-> <<>>,
                                errors |-> 0, unsub |-> unsubscribed],
                               symbol, 1, Len(callbacks), beh)
             IN  /\ subscribers' = st.subs
                 /\ unsubscribed' = st.unsub
                 /\ simResult' = [NoSimResult EXCEPT !.op = "dispatch",
                                     !.symbol = symbol, !.tick = u,
                                     !.before = callbacks,
                                     !.invoked = st.invoked,
                                     !.errors = st.errors]
    /\ updates' = afterSymbol(updates, u, TRUE)
    /\ UNCHANGED <<isRunning, intervalId, timers, ticks, feedErrors,
                   OutsideSimulator>>

\* dataFeed.getPrice rejects for update u: the error is logged and the loop
\* goes on
PriceRejects(u) ==
    /\ u \in DOMAIN updates
    /\ LET symbol == updates[u].symbols[updates[u].index]
       IN  /\ feedErrors' = [feedErrors EXCEPT ![symbol] = u]
           /\ simResult' = [NoSimResult EXCEPT !.op = "fetchError",
                               !.symbol = symbol, !.tick = u,
                               !.before = CallbacksOf(subscribers, symbol)]
    /\ updates' = afterSymbol(updates, u, FALSE)
    /\ UNCHANGED <<subscribers, isRunning, intervalId, timers,
                   ticks, unsubscribed, OutsideSimulator>>

\* a running simulator that is started and stopped: one client callback
\* per symbol, which only returns
NextTimers ==
    \/ \E symbol \in Symbols : Subscribe(symbol, "callback1")
    \/ Start
    \/ Stop
    \/ \E timer \in timers : Tick(timer)
    \/ \E u \in 1 .. MaxTicks : PriceResolves(u, {"return"})

SpecTimers == Init /\ [][NextTimers]_vars

\* a running simulator whose callbacks do what they like when notified
NextDispatch ==
    \/ \E callback \in Callbacks : Subscribe("AAPL", callback)
    \/ Start
    \/ \E timer \in timers : Tick(timer)
    \/ \E u \in 1 .. MaxTicks : PriceResolves(u, Behaviours)

SpecDispatch == Init /\ [][NextDispatch]_vars

\* a running simulator whose price feed may fail
NextFeedErrors ==
    \/ \E symbol \in Symbols : Subscribe(symbol, "callback1")
    \/ Start
    \/ \E timer \in timers : Tick(timer)
    \/ \E u \in 1 .. MaxTicks : PriceResolves(u, {"return"})
    \/ \E u \in 1 .. MaxTicks : PriceRejects(u)

SpecFeedErrors == Init /\ [][NextFeedErrors]_vars

\* clients that subscribe and unsubscribe on a simulator at rest
NextSubscriptions ==
    \/ \E symbol \in Symbols \cup {""}, callback \in Callbacks :
          Subscribe(symbol, callback)
    \/ \E symbol \in Symbols, callback \in Callbacks :
          Unsubscribe(symbol, callback)
    \/ GetSubscribedSymbols

SpecSubscriptions == Init /\ [][NextSubscriptions]_vars

\* clients that subscribe to and unsubscribe from one symbol of a running
\* simulator, with callbacks that only return
NextUnsubscribe ==
    \/ \E callback \in Callbacks : Subscribe("AAPL", callback)
    \/ \E callback \in Callbacks : Unsubscribe("AAPL", callback)
    \/ Start
    \/ \E timer \in timers : Tick(timer)
    \/ \E u \in 1 .. MaxTicks : PriceResolves(u, {"return"})

SpecUnsubscribe == Init /\ [][NextUnsubscribe]_vars

\* ============================================================= claims
RiskDenialReasons == {"Portfolio drawdown", "Position size", "Risk per trade"}

\* the last call was checkTrade for a buy, direct or made by buy
IsBuyCheck(r) == r.op \in {"checkTrade", "buy"} /\ r.action = "buy"

\* C1 (conservation): a buy that returns success with price p and quantity
\* q leaves cash = cash before - p*q, positions[symbol] = its previous
\* quantity (0 if absent) + q, and every other symbol's entry as it was.
C1_Conservation ==
    [][(result'.op = "buy" /\ result'.success) =>
          /\ cash' = cash - result'.price * result'.quantity
          /\ result'.symbol \in DOMAIN positions'
          /\ positions'[result'.symbol] =
                QuantityOf(positions, result'.symbol) + result'.quantity
          /\ \A s \in Symbols \ {result'.symbol} :
                /\ (s \in DOMAIN positions') = (s \in DOMAIN positions)
                /\ QuantityOf(positions', s) = QuantityOf(positions, s)]_vars

\* a successful buy at a positive cost with two symbols held afterwards
C1_Witness ==
    /\ result.op = "buy" /\ result.success
    /\ result.price * result.quantity > 0
    /\ Cardinality(DOMAIN positions) = 2

\* C2 (no mutation on denial): a buy that returns success = false leaves
\* cash, every positions entry and the history exactly as they were.
C2_NoMutationOnDenial ==
    [][(result'.op = "buy" /\ ~result'.success) =>
          /\ cash' = cash
          /\ positions' = positions
          /\ history' = history]_vars

\* a buy denied for insufficient funds on a ledger that already has trades
C2_Witness ==
    /\ result.op = "buy" /\ ~result.success
    /\ result.reason = "Insufficient funds"
    /\ Len(history) > 0

\* C3 (peak monotonicity): no call ever lowers peakPortfolioValue.
C3_PeakMonotone ==
    [][peakPortfolioValue' >= peakPortfolioValue]_vars

\* a valuation below a peak that has risen above the initial capital
C3_Witness ==
    /\ result.op = "getPortfolioValue"
    /\ result.portfolioValue < peakPortfolioValue
    /\ peakPortfolioValue > initialCapital

\* C4 (order of the checks): checkTrade for a buy evaluates drawdown, then
\* position size, then risk per trade, and stops at the first failure: a
\* violated drawdown limit gives the drawdown reason and nothing else is
\* evaluated; with drawdown passing, a violated position-size limit gives
\* the position-size reason whatever the risk per trade; the risk-per-trade
\* reason is returned only when the first two checks passed.
C4_CheckOrder ==
    IsBuyCheck(result) =>
       /\ result.checks >= 1
       /\ ~DrawdownAllowed(result.peakValue, result.currentValue) =>
             /\ result.reason = "Portfolio drawdown"
             /\ result.checks = 1
       /\ (/\ DrawdownAllowed(result.peakValue, result.currentValue)
           /\ ~PositionSizeAllowed(result.positionValue,
                                   result.positionPortfolioValue)) =>
             /\ result.reason = "Position size"
             /\ result.checks = 2
       /\ result.reason = "Risk per trade" =>
             /\ result.checks = 3
             /\ DrawdownAllowed(result.peakValue, result.currentValue)
             /\ PositionSizeAllowed(result.positionValue,
                                    result.positionPortfolioValue)

\* a drawdown denial of an order that, against the value the drawdown check
\* computed, also exceeds the position-size and the risk-per-trade limits
C4_Witness ==
    /\ result.op = "checkTrade" /\ result.action = "buy"
    /\ result.reason = "Portfolio drawdown"
    /\ result.peakValue > 0 /\ result.currentValue > 0
    /\ ~PositionSizeAllowed(
           (QuantityOf(positions, result.symbol) + result.quantity) * result.price,
           result.currentValue)
    /\ RiskExceeded(result.price * result.quantity, result.currentValue)

\* C5 (funds check after risk check): a buy whose risk check denies returns
\* the risk limiter's reason, also when the order costs more than the cash;
\* 'Insufficient funds' is returned only for orders the risk check allowed.
C5_FundsAfterRisk ==
    [][result'.op = "buy" =>
          /\ ~result'.allowed =>
                /\ ~result'.success
                /\ result'.reason \in RiskDenialReasons
          /\ result'.reason = "Insufficient funds" =>
                /\ result'.allowed
                /\ ~result'.success
                /\ cash < result'.price * result'.quantity]_vars

\* a buy denied by the risk check whose cost also exceeds the cash
C5_Witness ==
    /\ result.op = "buy" /\ ~result.allowed
    /\ result.reason \in RiskDenialReasons
    /\ cash < result.price * result.quantity

RiskAboveOnePercent(r) ==
    \/ r.portfolioValue > 0 /\ r.tradeCost * 100 > r.portfolioValue
    \/ r.portfolioValue = 0 /\ r.tradeCost > 0
    \/ r.portfolioValue < 0 /\ r.tradeCost * 100 < r.portfolioValue

\* C7 (risk per trade): when the drawdown and position-size checks pass,
\* checkTrade denies a buy with the risk-per-trade reason exactly when
\* price*quantity / portfolioValue is strictly greater than 1%, and
\* otherwise allows it and returns the metrics.
C7_RiskPerTrade ==
    (IsBuyCheck(result) /\ result.checks = 3) =>
       /\ result.tradeCost = result.price * result.quantity
       /\ IF RiskAboveOnePercent(result)
          THEN /\ ~result.allowed
               /\ result.reason = "Risk per trade"
          ELSE /\ result.allowed
               /\ result.op = "checkTrade" =>
                     /\ result.reason = "Trade passes all risk checks"
                     /\ result.metrics
               /\ (result.op = "buy" /\ result.success) => result.metrics

\* a risk-per-trade denial of an order within the position-size limit
C7_Witness ==
    /\ result.op = "checkTrade" /\ result.action = "buy"
    /\ result.checks = 3
    /\ result.reason = "Risk per trade"
    /\ result.portfolioValue > 0
    /\ result.tradeCost * 100 > result.portfolioValue

\* C8 as stated (risk-per-trade threshold exclusive): a buy whose
\* price*quantity / portfolioValue is exactly maxRiskPerTrade is denied.
C8_Original ==
    (/\ IsBuyCheck(result) /\ result.checks = 3
     /\ result.portfolioValue > 0
     /\ result.tradeCost * 100 = result.portfolioValue) => ~result.allowed

\* C8 as amended (risk-per-trade threshold inclusive): with the first two
\* checks passed, a buy whose price*quantity / portfolioValue is exactly
\* maxRiskPerTrade is allowed, and a buy whose cost is one unit above that
\* is denied.
C8_RiskThresholdInclusive ==
    (/\ IsBuyCheck(result) /\ result.checks = 3
     /\ result.portfolioValue > 0) =>
       /\ result.tradeCost * 100 = result.portfolioValue => result.allowed
       /\ (result.tradeCost - 1) * 100 >= result.portfolioValue
             => ~result.allowed

\* a buy at exactly 1% of the portfolio value has passed checkTrade
C8_Witness ==
    /\ IsBuyCheck(result) /\ result.checks = 3
    /\ result.portfolioValue > 0
    /\ result.tradeCost * 100 = result.portfolioValue
    /\ result.allowed

\* C9 (non-buy orders): checkTrade with an action other than 'buy' returns
\* allowed = true in every state, reads no price and leaves
\* peakPortfolioValue as it was.
C9_NonBuyAllowed ==
    [][(result'.op = "checkTrade" /\ result'.action # "buy") =>
          /\ result'.allowed
          /\ result'.reason = "Sell orders allowed"
          /\ result'.checks = 0
          /\ result'.oracleReads = 0
          /\ peakPortfolioValue' = peakPortfolioValue]_vars

\* a sell was allowed while the holdings, at the prices the oracle may
\* return, are worth 10% less than the peak or more than the peak
C9_Witness ==
    /\ result.op = "checkTrade" /\ result.action = "sell" /\ result.allowed
    /\ \E pr \in PriceReads(positions) :
          ~DrawdownAllowed(peakPortfolioValue, TotalValue(cash, positions, pr))
    /\ \E pr \in PriceReads(positions) :
          TotalValue(cash, positions, pr) > peakPortfolioValue

\* C10 (zero portfolio value): when the portfolio value the call computes
\* is zero, checkTrade for a buy returns allowed = false for every quantity
\* and price, also when peakPortfolioValue is zero.
C10_ZeroValueDenied ==
    (IsBuyCheck(result) /\ result.currentValue = 0) =>
       /\ ~result.allowed
       /\ ~result.success
       /\ result.reason = "Portfolio drawdown"

\* a buy was denied on a portfolio worth zero whose peak is zero too
C10_Witness ==
    /\ result.op = "checkTrade" /\ result.action = "buy"
    /\ result.currentValue = 0 /\ result.peakValue = 0
    /\ peakPortfolioValue = 0
    /\ ~result.allowed

\* a buy was denied on a portfolio worth zero below a positive peak
C10_WitnessPositivePeak ==
    /\ IsBuyCheck(result)
    /\ result.currentValue = 0 /\ result.peakValue > 0
    /\ ~result.allowed

\* C11 (invalid quantity fails fast): a buy with a zero or negative
\* quantity does not succeed and leaves cash, positions and history as
\* they were.
C11_NonPositiveQuantityRejected ==
    [][(result'.op = "buy" /\ result'.quantity <= 0) =>
          /\ ~result'.success
          /\ cash' = cash
          /\ positions' = positions
          /\ history' = history]_vars

\* C12 (cash never negative): after any sequence of buy calls, accepted or
\* denied, with any symbols, quantities and prices, portfolio.cash >= 0.
C12_CashNonNegative == cash >= 0

\* the funds test has just refused an order that costs more than the cash
C12_Witness ==
    /\ result.op = "buy" /\ result.allowed /\ ~result.success
    /\ result.reason = "Insufficient funds"
    /\ result.price * result.quantity > cash
    /\ cash >= 0

\* C13 (holdings never negative): every positions entry is a non-negative
\* quantity in every reachable state, whatever quantities the callers pass.
C13_PositionsNonNegative ==
    \A s \in DOMAIN positions : positions[s] >= 0

\* C14 (history is append-only): every step leaves the existing records of
\* history in place and in order; a successful buy appends exactly one
\* record that carries its action, symbol, quantity and price; a denied buy
\* and every other operation append none.
C14_HistoryAppendOnly ==
    [][/\ Len(history') >= Len(history)
       /\ SubSeq(history', 1, Len(history)) = history
       /\ (result'.op = "buy" /\ result'.success) =>
             history' = Append(history,
                          [action |-> "buy", symbol |-> result'.symbol,
                           quantity |-> result'.quantity,
                           price |-> result'.price])
       /\ ~(result'.op = "buy" /\ result'.success) => history' = history]_vars

\* two successful buys with different records: the log holds them in the
\* order of the buys, the later one last
C14_Witness ==
    /\ Len(history) = 2
    /\ history[1] # history[2]
    /\ result.op = "buy" /\ result.success
    /\ history[2].symbol = result.symbol
    /\ history[2].quantity = result.quantity
    /\ history[2].price = result.price

\* C15 (one price per buy): the price buy returns is the one its risk check
\* was given (the position-size check valued the resulting holding at it,
\* the risk-per-trade check costed the order at it), the one the debit was
\* computed from and the one in the history record; buy itself makes one
\* oracle read, all others are the valuations of the checks it reached.
C15_SinglePriceRead ==
    [][result'.op = "buy" =>
         /\ result'.oracleReads =
               1 + result'.checks * Cardinality(DOMAIN positions)
         /\ result'.checks >= 2 =>
               result'.positionValue =
                 (QuantityOf(positions, result'.symbol) + result'.quantity)
                   * result'.price
         /\ result'.checks = 3 =>
               result'.tradeCost = result'.price * result'.quantity
         /\ result'.success =>
               /\ cash' = cash - result'.price * result'.quantity
               /\ history'[Len(history')].price = result'.price]_vars

\* a successful buy of a symbol that was already held, whose risk-per-trade
\* valuation read another price for that symbol than the order's price
C15_Witness ==
    /\ result.op = "buy" /\ result.success /\ result.symbol = "AAPL"
    /\ DOMAIN positions = {"AAPL"}
    /\ positions["AAPL"] > result.quantity
    /\ result.portfolioValue #
          (cash + result.price * result.quantity)
            + (positions["AAPL"] - result.quantity) * result.price
    /\ history[Len(history)].price = result.price

\* the operations of the RiskManager
ReadOperations ==
    {"getPortfolioValue", "checkDrawdown", "checkPositionSize", "checkTrade",
     "getRiskMetrics"}

\* C19 (only a successful buy mutates the portfolio): a call of
\* getPortfolioValue, checkDrawdown, checkPositionSize, checkTrade or
\* getRiskMetrics leaves cash, positions and history as they were, and a
\* step that changes one of them is a successful buy.
C19_ReadOperationsFrame ==
    [][/\ result'.op \in ReadOperations =>
             /\ cash' = cash
             /\ positions' = positions
             /\ history' = history
       /\ <<cash, positions, history>>' # <<cash, positions, history>> =>
             result'.op = "buy" /\ result'.success]_vars

\* a valuation of a portfolio that holds a position worth more than nothing
\* has just run, raised the peak, and the ledger still holds the trade
C19_Witness ==
    /\ result.op \in ReadOperations
    /\ Len(history) >= 1
    /\ DOMAIN positions # {}
    /\ result.portfolioValue > cash
    /\ peakPortfolioValue = result.portfolioValue
    /\ peakPortfolioValue > initialCapital
    /\ cash = initialCapital - history[1].price * history[1].quantity

\* currentDrawdown = (peakValue - currentValue) / peakValue of a result is
\* the number zero: the numerator is zero and the quotient is not 0/0
DrawdownIsZero(r) == r.peakValue # 0 /\ r.peakValue - r.currentValue = 0

\* currentDrawdown of a result is below zero (minus infinity included)
DrawdownIsNegative(r) ==
    \/ r.peakValue - r.currentValue < 0 /\ r.peakValue >= 0
    \/ r.peakValue - r.currentValue > 0 /\ r.peakValue < 0

\* C20 as stated: checkDrawdown returns currentDrawdown = 0 and
\* allowed = true whenever the current value is at or above the peak held
\* before the call, and its drawdown is never negative.
C20_Original ==
    [][result'.op = "checkDrawdown" =>
         /\ result'.currentValue >= peakPortfolioValue =>
               DrawdownIsZero(result') /\ result'.allowed
         /\ ~DrawdownIsNegative(result')]_vars

\* C20 (drawdown after the ratchet): checkDrawdown computes against the
\* ratcheted peak, so when the current value is at or above the peak held
\* before the call and is greater than zero it returns currentDrawdown = 0
\* and allowed = true; when the current value and that peak are both zero
\* the quotient is 0/0 and it returns allowed = false; the drawdown is
\* never negative.
C20_DrawdownAfterRatchet ==
    [][result'.op = "checkDrawdown" =>
         /\ (result'.currentValue >= peakPortfolioValue
               /\ result'.currentValue > 0) =>
               /\ DrawdownIsZero(result') /\ result'.allowed
               /\ result'.peakValue = result'.currentValue
               /\ peakPortfolioValue' = result'.currentValue
         /\ (result'.currentValue = 0 /\ peakPortfolioValue = 0) =>
               ~DrawdownIsZero(result') /\ ~result'.allowed
         /\ ~DrawdownIsNegative(result')]_vars

\* checkDrawdown ran on a portfolio whose holdings were valued above the
\* capital the engine started with, and reported the new peak
C20_Witness ==
    /\ result.op = "checkDrawdown"
    /\ DOMAIN positions # {}
    /\ result.currentValue > initialCapital
    /\ result.peakValue = result.currentValue
    /\ peakPortfolioValue = result.currentValue
    /\ result.allowed

\* C18 (failed oracle read): a buy whose oracle read throws, at its first
\* read or inside a valuation of its risk check, returns no success and
\* leaves cash, positions and history as they were before the call.
C18_ThrowLeavesLedger ==
    [][result'.threw =>
         /\ ~result'.success
         /\ cash' = cash
         /\ positions' = positions
         /\ history' = history]_vars

\* a read failed inside the third valuation of a buy on a portfolio that
\* holds a position: the two completed valuations have raised the peak,
\* the ledger is the one the earlier trade left
C18_Witness ==
    /\ result.threw /\ result.checks = 2
    /\ DOMAIN positions # {}
    /\ Len(history) >= 1
    /\ peakPortfolioValue > initialCapital
    /\ cash = initialCapital - history[1].price * history[1].quantity

\* the first read of a buy failed
C18_WitnessFirstRead ==
    /\ result.threw /\ result.checks = 0 /\ result.oracleReads = 0
    /\ cash = initialCapital /\ cash > 0

\* the calls that have returned success
SuccessfulCalls == {i \in Callers : calls[i].pc = "done" /\ calls[i].success}

RECURSIVE SumCost(_)
SumCost(S) ==
    IF S = {} THEN 0
    ELSE LET i == CHOOSE x \in S : TRUE
         IN  calls[i].price * calls[i].quantity + SumCost(S \ {i})

RECURSIVE SumQuantity(_, _)
SumQuantity(symbol, S) ==
    IF S = {} THEN 0
    ELSE LET i == CHOOSE x \in S : TRUE
         IN  (IF calls[i].symbol = symbol THEN calls[i].quantity ELSE 0)
               + SumQuantity(symbol, S \ {i})

\* C16 (no lost debit): in every interleaving of concurrent buy calls the
\* cash is the initial cash minus price*quantity of the calls that
\* returned success, every holding is the sum of their quantities, and
\* history holds one record for each of them and no other.
C16_NoLostDebit ==
    /\ cash = initialCapital - SumCost(SuccessfulCalls)
    /\ \A s \in Symbols :
          QuantityOf(positions, s) = SumQuantity(s, SuccessfulCalls)
    /\ Len(history) = Cardinality(SuccessfulCalls)
    /\ \A i \in SuccessfulCalls : \E n \in 1 .. Len(history) :
          history[n] = TradeRecord("buy", calls[i].symbol, calls[i].quantity,
                                   calls[i].price)
    /\ \A n \in 1 .. Len(history) : \E i \in SuccessfulCalls :
          history[n] = TradeRecord("buy", calls[i].symbol, calls[i].quantity,
                                   calls[i].price)

\* two calls overlapped (the risk check of each valued the initial cash,
\* before the other's debit) and both returned success with a real cost
C16_Witness ==
    /\ \A i \in {1, 2} :
          /\ calls[i].pc = "done" /\ calls[i].success
          /\ calls[i].snapCash = initialCapital
          /\ calls[i].price * calls[i].quantity > 0
    /\ cash = initialCapital - calls[1].price * calls[1].quantity
                              - calls[2].price * calls[2].quantity
    /\ Len(history) >= 2

\* C17 (consistent snapshot): the cash and the positions that the risk
\* check of a buy valued are the cash and the positions that its debit and
\* its position addition are applied to.
C17_ConsistentSnapshot ==
    [][\A i \in Callers :
         (calls[i].pc = "commit" /\ calls'[i].pc = "done"
            /\ calls'[i].success) =>
           /\ calls[i].snapCash = cash
           /\ calls[i].snapPos = positions]_vars

\* the position value checkPositionSize judged is that of the holding of
\* its symbol plus the additional quantity, at the price it was given
JudgesProspectiveHolding(r) ==
    r.positionValue = (QuantityOf(positions, r.symbol) + r.quantity) * r.price

C21_WitnessOver ==
    /\ result.op = "checkPositionSize" /\ ~result.allowed
    /\ result.quantity = 201
    /\ result.positionPortfolioValue = 100000
    /\ result.positionValue = 20100

\* C22 (drawdown stays within the limit): on an engine that started with
\* its own 100000 and whose prices come from the built-in source, after
\* any sequence of buys getRiskMetrics reports a drawdown of at most 10%
\* and drawdownAllowed = true.
C22_DrawdownWithinLimit ==
    (initialCapital = InitialCash /\ result.op = "getRiskMetrics") =>
       /\ result.allowed
       /\ result.peakValue > 0
       /\ result.peakValue - result.currentValue >= 0
       /\ (result.peakValue - result.currentValue) * maxPortfolioDrawdown[2]
             <= maxPortfolioDrawdown[1] * result.peakValue

\* getRiskMetrics reported a drawdown above zero: two buys went through
\* and the holdings are now valued below the peak they once reached
C22_Witness ==
    /\ initialCapital = InitialCash /\ result.op = "getRiskMetrics"
    /\ Len(history) = 2
    /\ result.peakValue > result.currentValue
    /\ result.peakValue > initialCapital
    /\ result.allowed

\* C23 (silent after stop): when a dispatch invokes a callback the
\* simulator is running, also when the price fetch of the update was in
\* flight while stop() ran.
C23_NoCallbackAfterStop ==
    (simResult.op = "dispatch" /\ simResult.invoked # <<>>) => isRunning

\* C24 (every subscriber once): a dispatch invokes the callbacks the symbol
\* had when the dispatch began, each entry once and in order, whatever the
\* callbacks do.
C24_EverySubscriberOnce ==
    simResult.op = "dispatch" => simResult.invoked = simResult.before

\* C25 (unsubscribed means silent): a callback that a client has
\* unsubscribed from a symbol and not subscribed again is not invoked by a
\* dispatch for that symbol, and unsubscribing it again changes nothing.
C25_SilentAfterUnsubscribe ==
    [][/\ simResult'.op = "dispatch" =>
             \A n \in 1 .. Len(simResult'.invoked) :
                <<simResult'.symbol, simResult'.invoked[n]>> \notin unsubscribed
       /\ \A pair \in unsubscribed :
             unsubscribe(subscribers, pair[1], pair[2]) = subscribers]_vars

\* C26 (one timer): isRunning is true exactly when intervalId is set, the
\* timer intervalId names is the only active one, none is active when the
\* simulator is not running, and start() creates a timer exactly when the
\* simulator was not running.
C26_OneTimer ==
    /\ isRunning <=> intervalId # 0
    /\ Cardinality(timers) <= 1
    /\ timers = IF isRunning THEN {intervalId} ELSE {}
    /\ simResult.op = "start" => isRunning

\* start() was called on a running simulator after a tick: no timer was
\* created and the one timer is still active
C26_Witness ==
    /\ simResult.op = "start" /\ ~simResult.created
    /\ ticks >= 1
    /\ isRunning /\ timers = {intervalId}

\* C27 (a feed error costs one symbol one tick): a rejected price fetch
\* invokes no callback, leaves the subscriptions, isRunning and the timer
\* as they were and lets the update go on to its next symbol; a fetch that
\* resolves notifies the subscribers the symbol has.
C27_FeedErrorIsLocal ==
    [][/\ simResult'.op = "fetchError" =>
             /\ simResult'.invoked = <<>>
             /\ subscribers' = subscribers
             /\ isRunning' = isRunning /\ timers' = timers
             /\ LET u == simResult'.tick
                IN  updates[u].index < Len(updates[u].symbols) =>
                      /\ u \in DOMAIN updates'
                      /\ updates'[u].symbols = updates[u].symbols
                      /\ updates'[u].index = updates[u].index + 1
       /\ (simResult'.op = "dispatch" /\ simResult'.before # <<>>) =>
             simResult'.invoked # <<>>]_vars

\* a symbol whose fetch failed in the first tick is delivered in the second
C27_Witness ==
    /\ simResult.op = "dispatch" /\ simResult.tick = 2
    /\ simResult.invoked # <<>>
    /\ feedErrors[simResult.symbol] = 1
    /\ isRunning

\* a symbol is delivered in the tick in which the other symbol's fetch failed
C27_WitnessSameTick ==
    /\ simResult.op = "dispatch" /\ simResult.invoked # <<>>
    /\ \E s \in Symbols \ {simResult.symbol} : feedErrors[s] = simResult.tick

\* the number of entries of callback in array
RECURSIVE Count(_, _)
Count(array, callback) ==
    IF array = <<>> THEN 0
    ELSE (IF Head(array) = callback THEN 1 ELSE 0) + Count(Tail(array), callback)

HistoryServed == response'.op = "getHistory" /\ history' = history

\* C29: GET /api/history answers with the trade history most recent
\* first and leaves the ledger's history as it was; with limit=N, for
\* every integer N, the answer has at most N records and they are the N
\* most recent ones (all of them when the history has fewer).
C29_HistoryLimit ==
    [][/\ response' # response => history' = history
       /\ (HistoryServed /\ response'.limit = "undefined")
             => response'.body = Reverse(history')
       /\ (HistoryServed /\ response'.limit # "undefined")
             => LET N == parseInt(response'.limit)
                    most == IF N < 0 THEN 0
                            ELSE IF N > Len(history') THEN Len(history')
                            ELSE N
                IN  /\ Len(response'.body) <= most
                    /\ response'.body = SubSeq(Reverse(history'), 1, most)]_vars
\* the outcomes of data that are wins, counted apart from the verifier
RECURSIVE Positive(_)
Positive(data) ==
    IF data = <<>> THEN 0
    ELSE (IF Head(data) > 0 THEN 1 ELSE 0) + Positive(Tail(data))

\* the smallest outcome of data is a loss or a gain smaller than 25000
WorstUnderQuarter(data) ==
    \E n \in 1 .. Len(data) :
       /\ \A k \in 1 .. Len(data) : data[n] <= data[k]
       /\ data[n] > 0 - 25000 /\ data[n] < 25000

\* C30: verifyStrategy returns valid = true and 'SAFE' exactly when the
\* drawdown is under 0.25, the average risk under 0.02 and the win rate
\* over 0.4, all strictly: a win rate of exactly 0.4 or a drawdown of
\* exactly 0.25 gives valid = false and 'RISKY'; a trade with outcome 0
\* counts as a loss, so the win rate is wins over all trades.
C30_ValidExactlyWhenStrict ==
    verification.op = "verifyStrategy" =>
        LET data == verification.data
            wins == Positive(data)
            safe == /\ data # <<>>
                    /\ WorstUnderQuarter(data)
                    /\ 5 * wins > 2 * Len(data)
        IN  /\ verification.valid <=> safe
            /\ verification.valid <=> /\ verification.proofs.drawdown
                                       /\ verification.proofs.risk
                                       /\ verification.proofs.winRate
            /\ verification.recommendation
                  = IF verification.valid THEN "SAFE" ELSE "RISKY"
            /\ verification.proofs.risk
            /\ verification.metrics.winRate[2] = Len(data)
            /\ 5 * wins = 2 * Len(data) => ~verification.proofs.winRate
            /\ (/\ \E n \in 1 .. Len(data) : data[n] = 0 - 25000
                /\ \A n \in 1 .. Len(data) : data[n] >= 0 - 25000)
                  => ~verification.proofs.drawdown

\* a win rate of exactly 2/5 with a harmless drawdown, one of the losses
\* being a trade with outcome 0: RISKY
C30_Witness ==
    /\ verification.op = "verifyStrategy"
    /\ Len(verification.data) = 5
    /\ Positive(verification.data) = 2
    /\ \E n \in 1 .. 5 : verification.data[n] = 0
    /\ verification.proofs.drawdown
    /\ ~verification.valid
    /\ verification.recommendation = "RISKY"

\* a drawdown of exactly 0.25 with a win rate over 0.4: RISKY
C30_WitnessDrawdown ==
    /\ verification.op = "verifyStrategy"
    /\ verification.metrics.maxDrawdown = <<25000, 100000>>
    /\ verification.proofs.winRate
    /\ ~verification.valid

\* a strategy that is SAFE although one of its trades has outcome 0
C30_WitnessSafe ==
    /\ verification.op = "verifyStrategy"
    /\ \E n \in 1 .. Len(verification.data) : verification.data[n] = 0
    /\ verification.valid
    /\ verification.recommendation = "SAFE"
\* the portfolio values the call that returned r computed, one per
\* getPortfolioValue it made
ComputedValues(r) ==
    IF r.op = "getPortfolioValue" THEN {r.portfolioValue}
    ELSE IF r.op = "checkDrawdown" THEN {r.currentValue}
    ELSE IF r.op = "checkPositionSize" THEN {r.positionPortfolioValue}
    ELSE IF r.op = "getRiskMetrics" THEN {r.portfolioValue, r.currentValue}
    ELSE IF r.op \in {"checkTrade", "buy"}
    THEN (IF r.checks >= 1 THEN {r.currentValue} ELSE {})
         \cup (IF r.checks >= 2 THEN {r.positionPortfolioValue} ELSE {})
         \cup (IF r.checks >= 3 THEN {r.portfolioValue} ELSE {})
    ELSE {}

MaxOf(S) == CHOOSE x \in S : \A y \in S : y <= x

\* C31: peakPortfolioValue starts as the initial cash, changes only in a
\* call that computes a portfolio value, and after each call it is the
\* maximum of what it was and of the values the call computed; so it is
\* always the maximum of the initial cash and every value computed so
\* far, never below the initial capital nor below a value just returned.
C31_PeakIsHighWaterMark ==
    [][/\ result.op = "none" => peakPortfolioValue = initialCapital
       /\ peakPortfolioValue'
            = MaxOf({peakPortfolioValue} \cup ComputedValues(result'))
       /\ peakPortfolioValue' # peakPortfolioValue
            => peakPortfolioValue' \in ComputedValues(result')
       /\ peakPortfolioValue' >= initialCapital'
       /\ \A v \in ComputedValues(result') : peakPortfolioValue' >= v]_vars

\* the peak has been raised above the initial capital by one valuation
\* and a later valuation returned less than the peak
C31_Witness ==
    /\ peakPortfolioValue > initialCapital
    /\ initialCapital > 0
    /\ result.op = "getPortfolioValue"
    /\ result.portfolioValue < peakPortfolioValue
\* price*quantity summed over the records of a log
RECURSIVE HistoryCost(_)
HistoryCost(log) ==
    IF log = <<>> THEN 0
    ELSE Head(log).price * Head(log).quantity + HistoryCost(Tail(log))

\* the quantities of the records of a log that are for symbol, summed
RECURSIVE HistoryQuantity(_, _)
HistoryQuantity(log, symbol) ==
    IF log = <<>> THEN 0
    ELSE (IF Head(log).symbol = symbol THEN Head(log).quantity ELSE 0)
           + HistoryQuantity(Tail(log), symbol)

HistorySymbolsOf(log) == {log[n].symbol : n \in 1 .. Len(log)}

\* C32 (ledger consistency): between operations the cash is the initial
\* cash minus price*quantity summed over the history records, every
\* holding is the sum of the quantities of the records of its symbol, and
\* a symbol has a positions entry exactly when it has a record.
C32_LedgerConsistency ==
    /\ cash = initialCapital - HistoryCost(history)
    /\ DOMAIN positions = HistorySymbolsOf(history)
    /\ \A symbol \in DOMAIN positions :
          positions[symbol] = HistoryQuantity(history, symbol)

\* two paid buys of one symbol: the holding is the sum of both records
C32_Witness ==
    /\ Len(history) = 2
    /\ history[1].symbol = history[2].symbol
    /\ history[1].price * history[1].quantity > 0
    /\ history[2].price * history[2].quantity > 0
    /\ positions[history[1].symbol]
          = history[1].quantity + history[2].quantity
    /\ cash < initialCapital
\* C33: within one checkTrade call for a buy, the drawdown check, the
\* position-size check and the risk-per-trade check are evaluated against
\* the same portfolio value, also when positions are held and the oracle
\* answers successive reads with different prices.
C33_SamePortfolioValue ==
    (result.op \in {"checkTrade", "buy"} /\ result.action = "buy") =>
        /\ result.checks >= 2
              => result.positionPortfolioValue = result.currentValue
        /\ result.checks >= 3
              => result.portfolioValue = result.currentValue
\* cash plus every holding at the fixed price of its symbol
RECURSIVE FixedHoldingsValue(_, _)
FixedHoldingsValue(pos, S) ==
    IF S = {} THEN 0
    ELSE LET s == CHOOSE x \in S : TRUE
         IN  pos[s] * FixedPrice(s) + FixedHoldingsValue(pos, S \ {s})

FixedValue(c, pos) == c + FixedHoldingsValue(pos, DOMAIN pos)

\* what C34 says of one step and of the state it leads to
ValueConserved ==
    /\ result'.op = "buy" =>
          FixedValue(cash', positions') = FixedValue(cash, positions)
    /\ peakPortfolioValue' = initialCapital'

NoDrawdown ==
    result'.op \in {"buy", "getRiskMetrics"} =>
        /\ result'.reason # "Portfolio drawdown"
        /\ result'.peakValue # 0
        /\ result'.peakValue - result'.currentValue = 0

C34_WitnessDenied ==
    /\ result.op = "buy" /\ ~result.success
    /\ result.reason = "Risk per trade"
    /\ positions # <<>>
    /\ FixedValue(cash, positions) = initialCapital
\* C35: with a fixed price per symbol and positive quantities, in every
\* reachable state the value of each symbol's holding is at most
\* maxPositionSize (20%) of the portfolio value and the cost of every
\* history record is at most maxRiskPerTrade (1%) of the portfolio value.
C35_HoldingsWithinLimits ==
    LET portfolioValue == FixedValue(cash, positions)
    IN  /\ \A symbol \in DOMAIN positions :
              RatioLeq(positions[symbol] * FixedPrice(symbol), portfolioValue,
                       maxPositionSize)
        /\ \A n \in 1 .. Len(history) :
              RatioLeq(history[n].price * history[n].quantity, portfolioValue,
                       maxRiskPerTrade)
\* C36: reads for observability do not influence admission: of two runs
\* of the same buy calls that see the same oracle prices, one of them
\* with getPortfolioValue and getRiskMetrics calls between the buys,
\* every buy has the same success and the same reason in both.
C36_ReadsDoNotInfluenceAdmission ==
    [][result'.op = "buy" =>
          /\ result'.success = twinResult'.success
          /\ result'.reason = twinResult'.reason]_vars
\* C37: the exploration rate of SAFLAAgent starts at 0.1 and after any
\* sequence of learning calls with any outcomes it is within [0.05, 0.3];
\* a call with a positive outcome lowers it by 0.01, not below 0.05, and
\* any other call raises it by 0.01, not above 0.3.
C37_ExplorationRateBounded ==
    [][/\ learned.method = "none" => explorationRate = 10
       /\ explorationRate' >= 5 /\ explorationRate' <= 30
       /\ (~learned'.outcome.nan /\ learned'.outcome.value > 0)
             => explorationRate'
                   = (IF explorationRate = 5 THEN 5 ELSE explorationRate - 1)
       /\ ~(~learned'.outcome.nan /\ learned'.outcome.value > 0)
             => explorationRate'
                   = (IF explorationRate = 30 THEN 30
                      ELSE explorationRate + 1)]_vars

\* the rate is at its floor and a call with a positive outcome left it
\* there
C37_Witness ==
    /\ explorationRate = 5
    /\ learned.method # "none"
    /\ ~learned.outcome.nan /\ learned.outcome.value > 0

\* the rate is at its cap after a call whose outcome was NaN
C37_WitnessCap ==
    /\ explorationRate = 30
    /\ learned.method = "_simpleFallbackLearning"
    /\ learned.outcome.nan
====
